---- MODULE Spec2Model ----
(***************************************************************************)
(* A model of storage-api's validation engine                              *)
(* (internal/constants/validation_rules.go), its size parser and MIME      *)
(* matcher (internal/utils/common.go), its configuration accessors         *)
(* (internal/config/config.go), and the file service's storage path, stored*)
(* name, file hash, content check and batch processing                     *)
(* (internal/services/file_service.go), and the upload handler             *)
(* (internal/handlers/file_handler.go).                                    *)
(*                                                                         *)
(* Go strings are modelled as sequences of one-character strings, so that  *)
(* suffix tests, trimming, quoting, replacing and parsing are computed as  *)
(* the code computes them.  Rule names, naming strategies, error codes and *)
(* Sprintf format strings, which the code only copies or compares, stay    *)
(* TLA+ strings.                                                           *)
(***************************************************************************)
EXTENDS Integers, Sequences, FiniteSets, TLC

VARIABLES config, call, disk, db

vars == <<config, call, disk, db>>

(***************************************************************************)
(* Go's standard string functions, on sequences of characters.             *)
(***************************************************************************)

\* strings.HasSuffix
HasSuffix(s, suffix) ==
    /\ Len(s) >= Len(suffix)
    /\ SubSeq(s, Len(s) - Len(suffix) + 1, Len(s)) = suffix

\* strings.HasPrefix
HasPrefix(s, prefix) ==
    /\ Len(s) >= Len(prefix)
    /\ SubSeq(s, 1, Len(prefix)) = prefix

\* strings.TrimSuffix
TrimSuffix(s, suffix) ==
    IF HasSuffix(s, suffix) THEN SubSeq(s, 1, Len(s) - Len(suffix)) ELSE s

\* strings.TrimPrefix
TrimPrefix(s, prefix) ==
    IF HasPrefix(s, prefix) THEN SubSeq(s, Len(prefix) + 1, Len(s)) ELSE s

UpperLetters ==
    <<"A","B","C","D","E","F","G","H","I","J","K","L","M",
      "N","O","P","Q","R","S","T","U","V","W","X","Y","Z">>

LowerLetters ==
    <<"a","b","c","d","e","f","g","h","i","j","k","l","m",
      "n","o","p","q","r","s","t","u","v","w","x","y","z">>

ToLowerChar(c) ==
    IF \E i \in 1..Len(UpperLetters) : UpperLetters[i] = c
    THEN LowerLetters[CHOOSE i \in 1..Len(UpperLetters) : UpperLetters[i] = c]
    ELSE c

\* strings.ToLower (ASCII letters)
ToLower(s) == [i \in 1..Len(s) |-> ToLowerChar(s[i])]

\* strings.EqualFold (simple case folding; on ASCII, equality ignoring case)
EqualFold(s, t) == ToLower(s) = ToLower(t)

\* The characters strings.TrimSpace removes (of those the inputs use).
IsSpace(c) == c \in {" ", "\t", "\n"}

RECURSIVE TrimLeftSpace(_)
TrimLeftSpace(s) ==
    IF s # <<>> /\ IsSpace(Head(s)) THEN TrimLeftSpace(Tail(s)) ELSE s

RECURSIVE TrimRightSpace(_)
TrimRightSpace(s) ==
    IF s # <<>> /\ IsSpace(s[Len(s)])
    THEN TrimRightSpace(SubSeq(s, 1, Len(s) - 1))
    ELSE s

\* strings.TrimSpace
TrimSpace(s) == TrimRightSpace(TrimLeftSpace(s))

\* filepath.Ext: the suffix beginning at the final dot of the final path
\* element; scanning from the end stops at a path separator.
RECURSIVE ExtFrom(_, _)
ExtFrom(path, i) ==
    IF i < 1 \/ path[i] = "/" THEN <<>>
    ELSE IF path[i] = "." THEN SubSeq(path, i, Len(path))
    ELSE ExtFrom(path, i - 1)

Ext(path) == ExtFrom(path, Len(path))

\* strings.ReplaceAll for a non-empty old: non-overlapping, left to right.
RECURSIVE ReplaceAll(_, _, _)
ReplaceAll(s, old, new) ==
    IF s = <<>> THEN <<>>
    ELSE IF HasPrefix(s, old)
         THEN new \o ReplaceAll(SubSeq(s, Len(old) + 1, Len(s)), old, new)
         ELSE <<Head(s)>> \o ReplaceAll(Tail(s), old, new)

(***************************************************************************)
(* strconv: decimal integers and floats.                                   *)
(***************************************************************************)

Digits == <<"0","1","2","3","4","5","6","7","8","9">>

IsDigit(c) == \E i \in 1..10 : Digits[i] = c

DigitVal(c) == (CHOOSE i \in 1..10 : Digits[i] = c) - 1

AllDigits(s) == \A i \in 1..Len(s) : IsDigit(s[i])

RECURSIVE DecVal(_)
DecVal(s) ==
    IF s = <<>> THEN 0
    ELSE DecVal(SubSeq(s, 1, Len(s) - 1)) * 10 + DigitVal(s[Len(s)])

RECURSIVE Pow(_, _)
Pow(b, e) == IF e = 0 THEN 1 ELSE b * Pow(b, e - 1)

\* The unsigned part of s, after an optional sign.
Unsigned(s) ==
    IF s # <<>> /\ Head(s) \in {"+", "-"} THEN Tail(s) ELSE s

IsNegative(s) == s # <<>> /\ Head(s) = "-"

\* strconv.ParseInt(s, 10, 64): an optional sign and one or more decimal
\* digits (base 10 takes no underscores and no prefix).
ParseInt(s) ==
    LET u == Unsigned(s) IN
    IF u # <<>> /\ AllDigits(u)
    THEN [ok |-> TRUE, val |-> IF IsNegative(s) THEN 0 - DecVal(u) ELSE DecVal(u)]
    ELSE [ok |-> FALSE, val |-> 0]

\* The index of the first "." of s, or 0.
DotIndex(s) ==
    IF \E i \in 1..Len(s) : s[i] = "."
    THEN CHOOSE i \in 1..Len(s) : s[i] = "." /\ \A j \in 1..(i - 1) : s[j] # "."
    ELSE 0

\* strconv.ParseFloat(s, 64) on plain decimal text: an optional sign, digits
\* with at most one decimal point, at least one digit.  The value is the
\* exact fraction neg * num / den.
ParseFloat(s) ==
    LET u == Unsigned(s)
        d == DotIndex(u)
        ip == IF d = 0 THEN u ELSE SubSeq(u, 1, d - 1)
        fp == IF d = 0 THEN <<>> ELSE SubSeq(u, d + 1, Len(u))
    IN  IF AllDigits(ip) /\ AllDigits(fp) /\ Len(ip) + Len(fp) > 0
        THEN [ok |-> TRUE, neg |-> IsNegative(s),
              num |-> DecVal(ip \o fp), den |-> Pow(10, Len(fp))]
        ELSE [ok |-> FALSE, neg |-> FALSE, num |-> 0, den |-> 1]

\* fmt's %d
RECURSIVE NatToStr(_)
NatToStr(n) ==
    IF n < 10 THEN <<Digits[n + 1]>>
    ELSE NatToStr(n \div 10) \o <<Digits[(n % 10) + 1]>>

IntToStr(n) == IF n < 0 THEN <<"-">> \o NatToStr(0 - n) ELSE NatToStr(n)

(***************************************************************************)
(* internal/utils/common.go                                                *)
(***************************************************************************)

\* (q + r / den) * 1024^k, truncated: one factor of 1024 at a time, so that
\* no intermediate value outgrows the result.
RECURSIVE ScaleBy1024(_, _, _, _)
ScaleBy1024(q, r, den, k) ==
    IF k = 0 THEN q
    ELSE ScaleBy1024(q * 1024 + (r * 1024) \div den, (r * 1024) % den, den, k - 1)

WithSign(neg, m) == IF neg THEN 0 - m ELSE m

\* int64(size * 1024 * ... * 1024), k factors: the float product, truncated
\* toward zero.  The factors are powers of two, so the product is exact.
TruncScaled(f, k) ==
    WithSign(f.neg, ScaleBy1024(f.num \div f.den, f.num % f.den, f.den, k))

\* A returned (size, nil) and the returned (0, error).
SizeOk(size) == [ok |-> TRUE, size |-> size]

SizeErr == [ok |-> FALSE, size |-> 0]

\* ParseSizeString reads its steps in sequence, each passing the (possibly
\* trimmed) sizeStr on to the next when it does not return.

\* The final step: raw bytes.
parseRaw(sizeStr) ==
    IF ParseInt(sizeStr).ok THEN SizeOk(ParseInt(sizeStr).val) ELSE SizeErr

\* "Handle TB", entered with the suffix test's outcome and the string the
\* step leaves in sizeStr.
parseTB(isTB, sizeStr) ==
    IF isTB /\ ParseFloat(sizeStr).ok
    THEN SizeOk(TruncScaled(ParseFloat(sizeStr), 4))
    ELSE parseRaw(sizeStr)

\* "Handle GB"
parseGB(isGB, sizeStr) ==
    IF isGB /\ ParseFloat(sizeStr).ok
    THEN SizeOk(TruncScaled(ParseFloat(sizeStr), 3))
    ELSE parseTB(HasSuffix(sizeStr, <<"T","B">>), TrimSuffix(sizeStr, <<"T","B">>))

\* "Handle MB"
parseMB(isMB, sizeStr) ==
    IF isMB /\ ParseFloat(sizeStr).ok
    THEN SizeOk(TruncScaled(ParseFloat(sizeStr), 2))
    ELSE parseGB(HasSuffix(sizeStr, <<"G","B">>), TrimSuffix(sizeStr, <<"G","B">>))

\* "Handle KB"
parseKB(isKB, sizeStr) ==
    IF isKB /\ ParseFloat(sizeStr).ok
    THEN SizeOk(TruncScaled(ParseFloat(sizeStr), 1))
    ELSE parseMB(HasSuffix(sizeStr, <<"M","B">>), TrimSuffix(sizeStr, <<"M","B">>))

\* "Handle bytes", entered with the suffix test's outcome and the string the
\* step leaves in sizeStr.
parseB(isB, sizeStr) ==
    IF isB /\ ParseInt(sizeStr).ok
    THEN SizeOk(ParseInt(sizeStr).val)
    ELSE parseKB(HasSuffix(sizeStr, <<"K","B">>), TrimSuffix(sizeStr, <<"K","B">>))

\* The condition of "Handle bytes": a suffix B that is none of KB, MB, GB, TB.
isPlainB(sizeStr) ==
    /\ HasSuffix(sizeStr, <<"B">>)
    /\ ~HasSuffix(sizeStr, <<"K","B">>)
    /\ ~HasSuffix(sizeStr, <<"M","B">>)
    /\ ~HasSuffix(sizeStr, <<"G","B">>)
    /\ ~HasSuffix(sizeStr, <<"T","B">>)

\* After strings.TrimSpace.
parseTrimmed(sizeStr) ==
    parseB(isPlainB(sizeStr),
           IF isPlainB(sizeStr) THEN TrimSuffix(sizeStr, <<"B">>) ELSE sizeStr)

ParseSizeString(sizeStr) == parseTrimmed(TrimSpace(sizeStr))

\* utils.MatchesMimeType
MatchesMimeType(actual, pattern) ==
    IF actual = pattern THEN TRUE
    ELSE IF HasSuffix(pattern, <<"/","*">>)
         THEN HasPrefix(actual, TrimSuffix(pattern, <<"/","*">>) \o <<"/">>)
         ELSE FALSE

(***************************************************************************)
(* internal/config/config.go                                               *)
(***************************************************************************)

\* FileValidationConfig.GetDefaultMaxFileSize
GetDefaultMaxFileSize(c) ==
    LET p == ParseSizeString(c.DefaultMaxSize) IN
    IF ~p.ok THEN 10 * 1024 * 1024 ELSE p.size

\* FileValidationConfig.IsDefaultActionBlock
IsDefaultActionBlock(c) ==
    ToLower(c.DefaultAction) = <<"b","l","o","c","k">>

(***************************************************************************)
(* internal/constants/validation_rules.go                                  *)
(***************************************************************************)

unit == 1024

\* The loop of FormatFileSize: for n := bytes / unit; n >= unit; n /= unit.
RECURSIVE FormatLoop(_, _, _)
FormatLoop(n, div, exp) ==
    IF n >= unit THEN FormatLoop(n \div unit, div * unit, exp + 1)
    ELSE [div |-> div, exp |-> exp]

\* %.1f of bytes / div: the quotient is exact in binary (div is a power of
\* two), and the decimal rendering rounds it to a tenth, ties to even.
RoundTenths(bytes, div) ==
    LET q == (bytes * 10) \div div
        r == (bytes * 10) % div
    IN  IF 2 * r > div \/ (2 * r = div /\ q % 2 = 1) THEN q + 1 ELSE q

FormatFileSize(bytes) ==
    IF bytes < unit THEN IntToStr(bytes) \o <<" ", "B">>
    ELSE LET l == FormatLoop(bytes \div unit, unit, 0)
             t == RoundTenths(bytes, l.div)
         IN  NatToStr(t \div 10) \o <<".">> \o NatToStr(t % 10)
                 \o <<" ", <<"K","M","G","T","P","E">>[l.exp + 1], "B">>

\* regexp.QuoteMeta: a backslash before each regular-expression
\* metacharacter.
IsRegexMeta(c) ==
    c \in {"\\", ".", "+", "*", "?", "(", ")", "|", "[", "]", "{", "}", "^", "$"}

RECURSIVE QuoteMeta(_)
QuoteMeta(s) ==
    IF s = <<>> THEN <<>>
    ELSE (IF IsRegexMeta(Head(s)) THEN <<"\\", Head(s)>> ELSE <<Head(s)>>)
             \o QuoteMeta(Tail(s))

\* ValidationEngine.globToRegex
globToRegex(pattern) ==
    LET quoted == QuoteMeta(pattern)
        stars == ReplaceAll(quoted, <<"\\", "*">>, <<".", "*">>)
        marks == ReplaceAll(stars, <<"\\", "?">>, <<".">>)
    IN  <<"^">> \o marks \o <<"$">>

\* The regular expression's parse, for the syntax globToRegex writes: an
\* escaped character is a literal, ".*" a repetition of ".", "." any
\* character but newline (Go's default flags leave "." short of "\n"), and
\* any other character a literal.
RECURSIVE RegexTokens(_)
RegexTokens(re) ==
    IF re = <<>> THEN <<>>
    ELSE IF Head(re) = "\\" /\ Len(re) >= 2
         THEN <<[kind |-> "lit", ch |-> re[2]]>>
                  \o RegexTokens(SubSeq(re, 3, Len(re)))
    ELSE IF Head(re) = "." /\ Len(re) >= 2 /\ re[2] = "*"
         THEN <<[kind |-> "star", ch |-> "."]>>
                  \o RegexTokens(SubSeq(re, 3, Len(re)))
    ELSE IF Head(re) = "."
         THEN <<[kind |-> "any", ch |-> "."]>> \o RegexTokens(Tail(re))
    ELSE <<[kind |-> "lit", ch |-> Head(re)]>> \o RegexTokens(Tail(re))

DotMatches(c) == c # "\n"

\* Whether the tokens match exactly the text s (the expression is anchored
\* at both ends).
RECURSIVE TokensMatch(_, _)
TokensMatch(toks, s) ==
    IF toks = <<>> THEN s = <<>>
    ELSE LET t == Head(toks) IN
         IF t.kind = "lit"
         THEN s # <<>> /\ Head(s) = t.ch /\ TokensMatch(Tail(toks), Tail(s))
         ELSE IF t.kind = "any"
         THEN s # <<>> /\ DotMatches(Head(s)) /\ TokensMatch(Tail(toks), Tail(s))
         ELSE \/ TokensMatch(Tail(toks), s)
              \/ s # <<>> /\ DotMatches(Head(s)) /\ TokensMatch(toks, Tail(s))

\* regexp.MatchString, for an expression "^" ... "$".
MatchString(re, s) ==
    LET body == SubSeq(re, 2, Len(re) - 1) IN
    TokensMatch(RegexTokens(body), s)

\* ValidationEngine.matchesPattern
matchesPattern(filename, pattern) ==
    MatchString(globToRegex(pattern), filename)

\* matchesMimeType with the wildcard's prefix compared without its "/".
matchesMimeTypeNoSlash(actual, pattern) ==
    IF actual = pattern THEN TRUE
    ELSE IF HasSuffix(pattern, <<"/","*">>)
         THEN HasPrefix(actual, TrimSuffix(pattern, <<"/","*">>))
         ELSE FALSE

\* ValidationEngine.matchesMimeType
matchesMimeType(actual, pattern) ==
    IF actual = pattern THEN TRUE
    ELSE IF HasSuffix(pattern, <<"/","*">>)
         THEN HasPrefix(actual, TrimSuffix(pattern, <<"/","*">>) \o <<"/">>)
         ELSE FALSE

\* The extension loop comparing with == instead of strings.EqualFold.
RECURSIVE anyExtensionExact(_, _, _)
anyExtensionExact(ext, extensions, i) ==
    IF i > Len(extensions) THEN FALSE
    ELSE IF ext = extensions[i] THEN TRUE
    ELSE anyExtensionExact(ext, extensions, i + 1)

\* The three loops of matchesRule, each returning at its first hit.
RECURSIVE anyExtension(_, _, _)
anyExtension(ext, extensions, i) ==
    IF i > Len(extensions) THEN FALSE
    ELSE IF EqualFold(ext, extensions[i]) THEN TRUE
    ELSE anyExtension(ext, extensions, i + 1)

RECURSIVE anyPattern(_, _, _)
anyPattern(filename, patterns, i) ==
    IF i > Len(patterns) THEN FALSE
    ELSE IF matchesPattern(filename, patterns[i]) THEN TRUE
    ELSE anyPattern(filename, patterns, i + 1)

RECURSIVE anyMimeType(_, _, _)
anyMimeType(mimeType, mimeTypes, i) ==
    IF i > Len(mimeTypes) THEN FALSE
    ELSE IF matchesMimeType(mimeType, mimeTypes[i]) THEN TRUE
    ELSE anyMimeType(mimeType, mimeTypes, i + 1)

\* matchesRule requiring every populated list to match (AND for OR).
matchesRuleAll(ext, filename, mimeType, rule) ==
    /\ Len(rule.Extensions) > 0 => anyExtension(ext, rule.Extensions, 1)
    /\ Len(rule.Patterns) > 0 => anyPattern(filename, rule.Patterns, 1)
    /\ Len(rule.MimeTypes) > 0 => anyMimeType(mimeType, rule.MimeTypes, 1)

\* ValidationEngine.matchesRule
matchesRule(ext, filename, mimeType, rule) ==
    IF Len(rule.Extensions) > 0 /\ anyExtension(ext, rule.Extensions, 1) THEN TRUE
    ELSE IF Len(rule.Patterns) > 0 /\ anyPattern(filename, rule.Patterns, 1) THEN TRUE
    ELSE IF Len(rule.MimeTypes) > 0 /\ anyMimeType(mimeType, rule.MimeTypes, 1) THEN TRUE
    ELSE FALSE

\* fmt.Sprintf: the format and its arguments.
Sprintf(format, args) == [fmt |-> format, args |-> args]

NoReason == [fmt |-> "", args |-> <<>>]

\* applyRule checking the size before the allow flag.
applyRuleSizeFirst(rule, fileSize, ext) ==
    LET result == [IsAllowed |-> rule.Allow, MaxSize |-> 0, RuleName |-> rule.Name,
                   Reason |-> NoReason, MatchedRule |-> <<rule>>]
        p == ParseSizeString(rule.MaxSize)
    IN  IF rule.MaxSize # <<>> /\ p.ok /\ fileSize > p.size
        THEN [result EXCEPT !.Reason =
                 Sprintf("File size %s exceeds limit %s set by rule '%s'",
                         <<FormatFileSize(fileSize), rule.MaxSize, rule.Name>>)]
        ELSE IF ~rule.Allow
        THEN [result EXCEPT !.Reason = Sprintf("File blocked by rule '%s'", <<rule.Name>>)]
        ELSE [result EXCEPT !.MaxSize =
                 IF rule.MaxSize # <<>> /\ p.ok THEN p.size
                 ELSE GetDefaultMaxFileSize(config)]

\* applyRule taking the default limit whatever the rule's own size.
applyRuleDefaultSize(rule, fileSize, ext) ==
    LET result == [IsAllowed |-> rule.Allow, MaxSize |-> 0, RuleName |-> rule.Name,
                   Reason |-> NoReason, MatchedRule |-> <<rule>>]
    IN  IF ~rule.Allow
        THEN [result EXCEPT !.Reason = Sprintf("File blocked by rule '%s'", <<rule.Name>>)]
        ELSE IF fileSize > GetDefaultMaxFileSize(config)
        THEN [result EXCEPT !.MaxSize = GetDefaultMaxFileSize(config),
                            !.Reason =
                 Sprintf("File size %s exceeds default limit %s",
                         <<FormatFileSize(fileSize),
                           FormatFileSize(GetDefaultMaxFileSize(config))>>)]
        ELSE [result EXCEPT !.MaxSize = GetDefaultMaxFileSize(config)]

\* ValidationEngine.applyRule.  MatchedRule is <<rule>>, or <<>> for nil.
applyRule(rule, fileSize, ext) ==
    LET result == [IsAllowed |-> rule.Allow, MaxSize |-> 0, RuleName |-> rule.Name,
                   Reason |-> NoReason, MatchedRule |-> <<rule>>]
    IN  IF ~rule.Allow
        THEN [result EXCEPT !.Reason = Sprintf("File blocked by rule '%s'", <<rule.Name>>)]
        ELSE IF rule.MaxSize # <<>>
        THEN LET p == ParseSizeString(rule.MaxSize) IN
             IF ~p.ok
             THEN [result EXCEPT !.Reason =
                      Sprintf("Invalid size limit in rule '%s': %s",
                              <<rule.Name, rule.MaxSize>>)]
             ELSE IF fileSize > p.size
             THEN [result EXCEPT !.Reason =
                      Sprintf("File size %s exceeds limit %s set by rule '%s'",
                              <<FormatFileSize(fileSize), rule.MaxSize, rule.Name>>)]
             ELSE [result EXCEPT !.MaxSize = p.size]
        ELSE LET withMax == [result EXCEPT !.MaxSize = GetDefaultMaxFileSize(config)] IN
             IF fileSize > withMax.MaxSize
             THEN [withMax EXCEPT !.Reason =
                      Sprintf("File size %s exceeds default limit %s",
                              <<FormatFileSize(fileSize), FormatFileSize(withMax.MaxSize)>>)]
             ELSE withMax

\* applyDefaultAction deciding by the size alone.
applyDefaultActionBySize(ext, filename, mimeType, fileSize) ==
    [IsAllowed |-> fileSize <= GetDefaultMaxFileSize(config),
     MaxSize |-> GetDefaultMaxFileSize(config),
     RuleName |-> "Default Action",
     Reason |-> Sprintf("File type .%s not covered by any rules, default action is to block",
                        <<ext>>),
     MatchedRule |-> <<>>]

\* ValidationEngine.applyDefaultAction
applyDefaultAction(ext, filename, mimeType, fileSize) ==
    LET result == [IsAllowed |-> ~IsDefaultActionBlock(config), MaxSize |-> GetDefaultMaxFileSize(config),
                   RuleName |-> "Default Action", Reason |-> NoReason, MatchedRule |-> <<>>]
    IN  IF IsDefaultActionBlock(config)
        THEN [result EXCEPT !.Reason =
                 Sprintf("File type .%s not covered by any rules, default action is to block",
                         <<ext>>)]
        ELSE IF fileSize > result.MaxSize
        THEN [result EXCEPT !.Reason =
                 Sprintf("File size %s exceeds default limit %s",
                         <<FormatFileSize(fileSize), FormatFileSize(result.MaxSize)>>)]
        ELSE [result EXCEPT !.Reason =
                 Sprintf("File type .%s not covered by any rules, default action is to allow",
                         <<ext>>)]

\* The extension ValidateFile computes: lowercased, without its dot.
fileExt(filename) ==
    LET ext == ToLower(Ext(filename)) IN
    IF ext # <<>> THEN TrimPrefix(ext, <<".">>) ELSE ext

\* The rule loop taking the last matching rule instead of the first.
validateLastMatch(i, ext, filename, mimeType, fileSize) ==
    LET hits == {k \in i..Len(config.Rules) :
                    matchesRule(ext, filename, mimeType, config.Rules[k])}
    IN  IF hits = {}
        THEN applyDefaultAction(ext, filename, mimeType, fileSize)
        ELSE applyRule(config.Rules[CHOOSE k \in hits : \A h \in hits : h <= k],
                       fileSize, ext)

\* The rule loop of ValidateFile, from rule i on.
RECURSIVE validateFrom(_, _, _, _, _)
validateFrom(i, ext, filename, mimeType, fileSize) ==
    IF i > Len(config.Rules)
    THEN applyDefaultAction(ext, filename, mimeType, fileSize)
    ELSE IF matchesRule(ext, filename, mimeType, config.Rules[i])
    THEN applyRule(config.Rules[i], fileSize, ext)
    ELSE validateFrom(i + 1, ext, filename, mimeType, fileSize)

\* ValidationEngine.ValidateFile
ValidateFile(filename, mimeType, fileSize) ==
    validateFrom(1, fileExt(filename), filename, mimeType, fileSize)

(***************************************************************************)
(* Inputs: the configurations an engine is built from and the files it is  *)
(* asked about.                                                            *)
(***************************************************************************)

MaxRules == 2

NoList == <<>>

\* Scenario A's rule: images up to 5MB.
RuleImages ==
    [Name |-> "images", Extensions |-> << <<"j","p","g">>, <<"p","n","g">> >>,
     Patterns |-> NoList, MimeTypes |-> NoList,
     MaxSize |-> <<"5","M","B">>, Allow |-> TRUE]

\* An allow rule by pattern, without a size of its own.
RuleDocs ==
    [Name |-> "docs", Extensions |-> NoList,
     Patterns |-> << <<"*",".","p","d","f">> >>, MimeTypes |-> NoList,
     MaxSize |-> <<>>, Allow |-> TRUE]

\* An allow rule by MIME type whose size does not parse.
RulePics ==
    [Name |-> "pics", Extensions |-> NoList, Patterns |-> NoList,
     MimeTypes |-> << <<"i","m","a","g","e","/","*">> >>,
     MaxSize |-> <<"5","m","b">>, Allow |-> TRUE]

\* A block rule with a small size.
RuleNoJpg ==
    [Name |-> "nojpg", Extensions |-> << <<"J","P","G">> >>,
     Patterns |-> NoList, MimeTypes |-> NoList,
     MaxSize |-> <<"1","K","B">>, Allow |-> FALSE]

\* A block rule by exact MIME type, without a size.
RuleNoPdf ==
    [Name |-> "nopdf", Extensions |-> NoList, Patterns |-> NoList,
     MimeTypes |-> << <<"a","p","p","l","i","c","a","t","i","o","n","/","p","d","f">> >>,
     MaxSize |-> <<>>, Allow |-> FALSE]

\* A rule with no extensions, patterns or MIME types.
RuleDead ==
    [Name |-> "dead", Extensions |-> NoList, Patterns |-> NoList,
     MimeTypes |-> NoList, MaxSize |-> <<"1","K","B">>, Allow |-> TRUE]

RuleChoices == {RuleImages, RuleDocs, RulePics, RuleNoJpg, RuleNoPdf, RuleDead}

RECURSIVE RuleLists(_)
RuleLists(n) ==
    IF n = 0 THEN {<<>>}
    ELSE LET shorter == RuleLists(n - 1) IN
         shorter \cup {Append(l, r) : l \in {x \in shorter : Len(x) = n - 1},
                                      r \in RuleChoices}

DefaultActions == { <<"b","l","o","c","k">>, <<"a","l","l","o","w">> }

DefaultMaxSizes == { <<"1","0","M","B">>, <<"t","e","n">> }

Configs ==
    [DefaultMaxSize : DefaultMaxSizes, DefaultAction : DefaultActions,
     StrictMimeValidation : {FALSE}, Rules : RuleLists(MaxRules)]

Filenames ==
    { <<"p",".","j","p","g">>, <<"P",".","J","P","G">>, <<"d",".","p","d","f">>,
      <<"d",".","P","D","F">>, <<"n","o","e","x","t">> }

MimeTypes ==
    { <<"i","m","a","g","e","/","p","n","g">>,
      <<"a","p","p","l","i","c","a","t","i","o","n","/","p","d","f">>,
      <<"t","e","x","t","/","p","l","a","i","n">> }

\* 1KB, 4MB, 5MB, 5MB + 1, 6MB, 10MB + 1
FileSizes == {1024, 4194304, 5242880, 5242881, 6291456, 10485761}

(***************************************************************************)
(* The engine: built once from a configuration, then asked about files.    *)
(***************************************************************************)

Idle == [op |-> "none"]

\* A storage directory with no file in it: disk maps each path of a file to
\* the file's bytes.
NoFiles == <<>>

\* The files table with no row in it: db is the sequence of the rows created,
\* in creation order.
NoRecords == <<>>

\* NewValidationEngine
Init ==
    /\ config \in Configs
    /\ call = Idle
    /\ disk = NoFiles
    /\ db = NoRecords

\* A call of ValidationEngine.ValidateFile, up to its return value.
DoValidateFile ==
    /\ call = Idle
    /\ \E filename \in Filenames, mimeType \in MimeTypes, fileSize \in FileSizes :
           call' = [op |-> "ValidateFile", filename |-> filename,
                    mimeType |-> mimeType, fileSize |-> fileSize,
                    ret |-> ValidateFile(filename, mimeType, fileSize)]
    /\ UNCHANGED <<config, disk, db>>

\* The caller takes the return value; the engine is ready for the next call.
Return ==
    /\ call # Idle
    /\ call' = Idle
    /\ UNCHANGED <<config, disk, db>>

Next == DoValidateFile \/ Return

Spec == Init /\ [][Next]_vars

(***************************************************************************)
(* The matchers on their own: matchesRule, matchesPattern and the two      *)
(* MIME matchers, each called on inputs of its own.                        *)
(***************************************************************************)

\* A rule with two of the three lists populated.
RuleMixed ==
    [Name |-> "mixed", Extensions |-> << <<"j","p","g">> >>, Patterns |-> NoList,
     MimeTypes |-> << <<"t","e","x","t","/","p","l","a","i","n">> >>,
     MaxSize |-> <<>>, Allow |-> TRUE]

\* A rule whose extension is written in mixed case.
RuleArchives ==
    [Name |-> "archives", Extensions |-> << <<"G","z">> >>, Patterns |-> NoList,
     MimeTypes |-> NoList, MaxSize |-> <<>>, Allow |-> TRUE]

MatchRules == RuleChoices \cup {RuleMixed, RuleArchives}

\* File names whose extension is upper case, doubled, empty or the whole name.
ExtNames ==
    { <<"P","H","O","T","O",".","J","P","G">>, <<"a",".","t","a","r",".","g","Z">>,
      <<"a",".","t","a","r">>, <<"f","i","l","e",".">>, <<".","g","z">>,
      <<"j","p","g">> }

GlobPatterns ==
    { <<"*",".","p","d","f">>, <<"?",".","p","d","f">>, <<"a",".","p","d","f">>,
      <<"a","*">>, <<"*">>, <<"a","?","*","f">>, <<>> }

GlobNames ==
    { <<"r","e","p","o","r","t",".","p","d","f">>, <<"a",".","b",".","p","d","f">>,
      <<"r","e","p","o","r","t",".","p","d","f","x">>,
      <<"r","e","p","o","r","t",".","P","D","F">>,
      <<"a",".","p","d","f">>, <<"a","x","p","d","f">>, <<".","p","d","f">>,
      <<"a","\n",".","p","d","f">>, <<"a","*">>, <<>> }

MimePatterns ==
    { <<"i","m","a","g","e","/","*">>, <<"i","m","a","g","e","/","p","n","g">>,
      <<"i","m","a","g","e","/">>, <<"*","/","*">>, <<"/","*">>, <<"*">> }

MimeActuals ==
    { <<"i","m","a","g","e","/","p","n","g">>, <<"i","m","a","g","e","/","g","i","f">>,
      <<"a","p","p","l","i","c","a","t","i","o","n","/","p","d","f">>,
      <<"I","M","A","G","E","/","P","N","G">>, <<"i","m","a","g","e","s","/","x">>,
      <<"i","m","a","g","e","/">>, <<"i","m","a","g","e">>, <<"*","/","*">>, <<>> }

ScenarioA ==
    [DefaultMaxSize |-> <<"1","0","M","B">>, DefaultAction |-> <<"b","l","o","c","k">>,
     StrictMimeValidation |-> FALSE, Rules |-> <<RuleImages>>]

InitMatch ==
    /\ config = ScenarioA
    /\ call = Idle
    /\ disk = NoFiles
    /\ db = NoRecords

\* A call of ValidationEngine.matchesRule, with the extension ValidateFile
\* passes for the file name.
DoMatchesRule ==
    /\ call = Idle
    /\ \E filename \in Filenames \cup ExtNames, mimeType \in MimeTypes,
          rule \in MatchRules :
           call' = [op |-> "matchesRule", ext |-> fileExt(filename),
                    filename |-> filename, mimeType |-> mimeType, rule |-> rule,
                    ret |-> matchesRule(fileExt(filename), filename, mimeType, rule)]
    /\ UNCHANGED <<config, disk, db>>

\* A call of ValidationEngine.matchesPattern.
DoMatchesPattern ==
    /\ call = Idle
    /\ \E filename \in GlobNames, pattern \in GlobPatterns :
           call' = [op |-> "matchesPattern", filename |-> filename,
                    pattern |-> pattern, ret |-> matchesPattern(filename, pattern)]
    /\ UNCHANGED <<config, disk, db>>

\* A call of ValidationEngine.matchesMimeType.
DoMatchesMimeType ==
    /\ call = Idle
    /\ \E actual \in MimeActuals, pattern \in MimePatterns :
           call' = [op |-> "matchesMimeType", actual |-> actual,
                    pattern |-> pattern, ret |-> matchesMimeType(actual, pattern)]
    /\ UNCHANGED <<config, disk, db>>

\* A call of utils.MatchesMimeType.
DoUtilsMatchesMimeType ==
    /\ call = Idle
    /\ \E actual \in MimeActuals, pattern \in MimePatterns :
           call' = [op |-> "utils.MatchesMimeType", actual |-> actual,
                    pattern |-> pattern, ret |-> MatchesMimeType(actual, pattern)]
    /\ UNCHANGED <<config, disk, db>>

NextMatch ==
    \/ DoMatchesRule
    \/ DoMatchesPattern
    \/ DoMatchesMimeType
    \/ DoUtilsMatchesMimeType
    \/ Return

SpecMatch == InitMatch /\ [][NextMatch]_vars

(***************************************************************************)
(* The size parser and the size formatter on their own.                    *)
(***************************************************************************)

\* The texts before a unit: integers, decimals, signed, malformed, empty.
SizeMagnitudes ==
    { <<>>, <<"0">>, <<"1">>, <<"5">>, <<"1","0">>, <<"1","0","2","4">>,
      <<"1",".","5">>, <<"0",".","5">>, <<".","5">>, <<"5",".">>,
      <<"2",".","0">>, <<"0",".","0","0","1">>, <<"1",".","2",".","3">>,
      <<"a","b","c">>, <<"-","5">>, <<"+","1">>, <<"5"," ">>, <<"1",",","5">> }

\* The units, their lower-case and unknown variants, and stacked units.
SizeSuffixes ==
    { <<>>, <<"B">>, <<"K","B">>, <<"M","B">>, <<"b">>, <<"k","b">>, <<"m","b">>,
      <<"K","b">>, <<"X","B">>, <<"P","B">>, <<"K">>, <<"M">>, <<"B","B">>,
      <<"K","B","B">>, <<"M","B","K","B">>, <<"K","B","M","B">>,
      <<"M","B","B">> }

\* Magnitudes for GB and for TB, whose byte counts stay within the integers
\* of the model checker.
GBMagnitudes ==
    { <<>>, <<"0">>, <<"1">>, <<"1",".","5">>, <<"0",".","5">>, <<"a","b","c">>,
      <<"-","1">>, <<"0",".","0","0","1">> }

TBMagnitudes ==
    { <<>>, <<"0">>, <<"0",".","0","0","1">>, <<"0",".","0","0","0","5">>,
      <<"a","b","c">> }

\* Texts with white space around or inside.
PaddedSizes ==
    { <<" ","1","0","M","B"," ">>, <<"1","0"," ","M","B">>,
      <<"\t","5","K","B","\n">>, <<" ">>, <<"5","1","2"," ","B">> }

SizeTexts ==
    {m \o u : m \in SizeMagnitudes, u \in SizeSuffixes}
        \cup {m \o <<"G","B">> : m \in GBMagnitudes}
        \cup {m \o <<"G","B","B">> : m \in GBMagnitudes}
        \cup {m \o <<"T","B">> : m \in TBMagnitudes}
        \cup PaddedSizes

\* Byte counts at and around the steps of 1024, and where the tenth rounds.
ByteCounts ==
    { 0, 1, 512, 999, 1000, 1023, 1024, 1025, 1075, 1126, 1536, 10240, 102400,
      1047552, 1048064, 1048524, 1048525, 1048575, 1048576, 1048577, 1572864,
      5242880, 5242881, 6291456, 10485760, 10485761, 104857600, 209715200 }

InitSize ==
    /\ config = ScenarioA
    /\ call = Idle
    /\ disk = NoFiles
    /\ db = NoRecords

\* A call of utils.ParseSizeString.
DoParseSizeString ==
    /\ call = Idle
    /\ \E sizeStr \in SizeTexts :
           call' = [op |-> "ParseSizeString", sizeStr |-> sizeStr,
                    ret |-> ParseSizeString(sizeStr)]
    /\ UNCHANGED <<config, disk, db>>

\* A call of constants.FormatFileSize.
DoFormatFileSize ==
    /\ call = Idle
    /\ \E bytes \in ByteCounts :
           call' = [op |-> "FormatFileSize", bytes |-> bytes,
                    ret |-> FormatFileSize(bytes)]
    /\ UNCHANGED <<config, disk, db>>

NextSize ==
    \/ DoParseSizeString
    \/ DoFormatFileSize
    \/ Return

SpecSize == InitSize /\ [][NextSize]_vars

(***************************************************************************)
(* internal/services/file_service.go: where an uploaded file is stored.    *)
(* Here config is the service's StorageConfig (Organization and Storage),  *)
(* and a call draws the readings of the clock and the fresh UUID.          *)
(***************************************************************************)

\* strings.Contains
Contains(s, substr) ==
    \E i \in 0..(Len(s) - Len(substr)) : SubSeq(s, i + 1, i + Len(substr)) = substr

\* A number written with at least width digits, zero-padded.
RECURSIVE ZeroPad(_, _)
ZeroPad(digits, width) ==
    IF Len(digits) >= width THEN digits ELSE ZeroPad(<<"0">> \o digits, width)

\* The hour on the 12-hour clock.
Hour12(hour) == IF hour % 12 = 0 THEN 12 ELSE hour % 12

\* The layout chunk "0x": 01 month, 02 day, 03 hour (12), 04 minute,
\* 05 second, 06 year (two digits).
Std0x(x, t) ==
    IF x = "1" THEN ZeroPad(NatToStr(t.month), 2)
    ELSE IF x = "2" THEN ZeroPad(NatToStr(t.day), 2)
    ELSE IF x = "3" THEN ZeroPad(NatToStr(Hour12(t.hour)), 2)
    ELSE IF x = "4" THEN ZeroPad(NatToStr(t.minute), 2)
    ELSE IF x = "5" THEN ZeroPad(NatToStr(t.second), 2)
    ELSE ZeroPad(NatToStr(t.year % 100), 2)

\* time.Time.Format: the layout is read chunk by chunk, a reference-time
\* chunk written as the time's value and any other character as itself
\* (the numeric chunks; layouts here use no names of months, days or zones).
RECURSIVE Format(_, _)
Format(t, layout) ==
    IF layout = <<>> THEN <<>>
    ELSE IF HasPrefix(layout, <<"2","0","0","6">>)
         THEN ZeroPad(NatToStr(t.year), 4) \o Format(t, SubSeq(layout, 5, Len(layout)))
    ELSE IF Head(layout) = "2"
         THEN NatToStr(t.day) \o Format(t, Tail(layout))
    ELSE IF HasPrefix(layout, <<"1","5">>)
         THEN ZeroPad(NatToStr(t.hour), 2) \o Format(t, SubSeq(layout, 3, Len(layout)))
    ELSE IF Head(layout) = "1"
         THEN NatToStr(t.month) \o Format(t, Tail(layout))
    ELSE IF Head(layout) = "0" /\ Len(layout) >= 2
                /\ layout[2] \in {"1", "2", "3", "4", "5", "6"}
         THEN Std0x(layout[2], t) \o Format(t, SubSeq(layout, 3, Len(layout)))
    ELSE IF Head(layout) = "3"
         THEN NatToStr(Hour12(t.hour)) \o Format(t, Tail(layout))
    ELSE IF Head(layout) = "4"
         THEN NatToStr(t.minute) \o Format(t, Tail(layout))
    ELSE IF Head(layout) = "5"
         THEN NatToStr(t.second) \o Format(t, Tail(layout))
    ELSE <<Head(layout)>> \o Format(t, Tail(layout))

\* The elements of a path between its separators, empty ones included.
RECURSIVE SplitPath(_, _)
SplitPath(path, cur) ==
    IF path = <<>> THEN <<cur>>
    ELSE IF Head(path) = "/" THEN <<cur>> \o SplitPath(Tail(path), <<>>)
    ELSE SplitPath(Tail(path), Append(cur, Head(path)))

\* filepath.Clean's pass over the elements: empty and "." elements drop, ".."
\* drops the element before it (or stays, at the start of a relative path).
RECURSIVE CleanElems(_, _, _)
CleanElems(elems, out, rooted) ==
    IF elems = <<>> THEN out
    ELSE IF Head(elems) = <<>> \/ Head(elems) = <<".">>
         THEN CleanElems(Tail(elems), out, rooted)
    ELSE IF Head(elems) = <<".", ".">>
         THEN IF out # <<>> /\ out[Len(out)] # <<".", ".">>
              THEN CleanElems(Tail(elems), SubSeq(out, 1, Len(out) - 1), rooted)
              ELSE IF rooted THEN CleanElems(Tail(elems), out, rooted)
              ELSE CleanElems(Tail(elems), Append(out, Head(elems)), rooted)
    ELSE CleanElems(Tail(elems), Append(out, Head(elems)), rooted)

\* strings.Join(elems, "/")
RECURSIVE JoinSlash(_)
JoinSlash(elems) ==
    IF elems = <<>> THEN <<>>
    ELSE IF Len(elems) = 1 THEN Head(elems)
    ELSE Head(elems) \o <<"/">> \o JoinSlash(Tail(elems))

\* The cleaned path from its cleaned elements.
CleanFrom(kept, rooted) ==
    IF rooted THEN <<"/">> \o JoinSlash(kept)
    ELSE IF kept = <<>> THEN <<".">>
    ELSE JoinSlash(kept)

\* filepath.Clean
Clean(path) ==
    IF path = <<>> THEN <<".">>
    ELSE CleanFrom(CleanElems(SplitPath(path, <<>>), <<>>, Head(path) = "/"),
                   Head(path) = "/")

IsNonEmpty(e) == e # <<>>

\* The join of the non-empty elements, cleaned.
JoinKept(kept) == IF kept = <<>> THEN <<>> ELSE Clean(JoinSlash(kept))

\* filepath.Join: empty elements are ignored, the rest joined by the
\* separator and cleaned; all empty gives the empty string.
Join(elem) == JoinKept(SelectSeq(elem, IsNonEmpty))

\* utils.GetFileExtension
GetFileExtension(filename) == TrimPrefix(ToLower(Ext(filename)), <<".">>)

\* A returned (name, nil) and the returned ("", error).
NameOk(name) == [name |-> name, err |-> ""]

NameErr(code) == [name |-> <<>>, err |-> code]

\* fmt's %d of time.Now().UnixNano(): the seconds, then the nanoseconds of
\* the second in nine digits.
UnixNanoText(t) == NatToStr(t.unix) \o ZeroPad(NatToStr(t.nsec), 9)

\* generateFileName falling back to the uuid strategy for an unknown one.
generateFileNameFallback(originalName, id, stamp) ==
    IF config.Organization.Naming.Strategy = "timestamp"
    THEN IF config.Organization.Naming.PreserveExtension
         THEN NameOk(UnixNanoText(stamp) \o Ext(originalName))
         ELSE NameOk(UnixNanoText(stamp))
    ELSE IF config.Organization.Naming.Strategy = "original"
    THEN IF config.Organization.Naming.PreserveExtension
         THEN NameOk(originalName)
         ELSE NameOk(TrimSuffix(originalName, Ext(originalName)))
    ELSE IF config.Organization.Naming.PreserveExtension
         THEN NameOk(id \o Ext(originalName))
         ELSE NameOk(id)

\* generateFileName appending the extension to a UUID whatever
\* PreserveExtension says.
generateFileNameKeepExt(originalName, id, stamp) ==
    IF config.Organization.Naming.Strategy = "uuid"
    THEN NameOk(id \o Ext(originalName))
    ELSE IF config.Organization.Naming.Strategy = "timestamp"
    THEN IF config.Organization.Naming.PreserveExtension
         THEN NameOk(UnixNanoText(stamp) \o Ext(originalName))
         ELSE NameOk(UnixNanoText(stamp))
    ELSE IF config.Organization.Naming.Strategy = "original"
    THEN IF config.Organization.Naming.PreserveExtension
         THEN NameOk(originalName)
         ELSE NameOk(TrimSuffix(originalName, Ext(originalName)))
    ELSE NameErr("INVALID_NAMING_STRATEGY")

\* FileService.generateFileName, with the UUID a uuid case draws and the
\* clock reading a timestamp case takes.
generateFileName(originalName, id, stamp) ==
    IF config.Organization.Naming.Strategy = "uuid"
    THEN IF config.Organization.Naming.PreserveExtension
         THEN NameOk(id \o Ext(originalName))
         ELSE NameOk(id)
    ELSE IF config.Organization.Naming.Strategy = "timestamp"
    THEN IF config.Organization.Naming.PreserveExtension
         THEN NameOk(UnixNanoText(stamp) \o Ext(originalName))
         ELSE NameOk(UnixNanoText(stamp))
    ELSE IF config.Organization.Naming.Strategy = "original"
    THEN IF config.Organization.Naming.PreserveExtension
         THEN NameOk(originalName)
         ELSE NameOk(TrimSuffix(originalName, Ext(originalName)))
    ELSE NameErr("INVALID_NAMING_STRATEGY")

\* The date component written in the configured format whatever IncludeTime
\* says.
datePartConfigured(now) ==
    IF Contains(config.Organization.Pattern, <<"d","a","t","e">>)
    THEN << Format(now, config.Organization.DateFormat) >>
    ELSE <<>>

\* "Add date component"
datePart(now) ==
    IF Contains(config.Organization.Pattern, <<"d","a","t","e">>)
    THEN << Format(now, IF config.Organization.IncludeTime
                        THEN <<"2","0","0","6","-","0","1","-","0","2","-","1","5">>
                        ELSE config.Organization.DateFormat) >>
    ELSE <<>>

\* "Add file type component"
typePart(fileType) ==
    IF Contains(config.Organization.Pattern, <<"t","y","p","e">>)
    THEN <<fileType>>
    ELSE <<>>

\* "Combine path", with the outcome of generateFileName.
combinePath(pathParts, name) ==
    IF name.err # ""
    THEN [fullPath |-> <<>>, fileName |-> <<>>, err |-> name.err]
    ELSE [fullPath |-> Join(<<config.Storage.UploadDir, Join(pathParts), name.name>>),
          fileName |-> name.name, err |-> ""]

\* FileService.GenerateFilePath
GenerateFilePath(originalName, fileType, now, id, stamp) ==
    combinePath(datePart(now) \o typePart(fileType),
                generateFileName(originalName, id, stamp))

\* The organization patterns: the documented ones, ones naming neither
\* token, and ones holding a token inside another word.
OrgPatterns ==
    { <<"d","a","t","e","/","t","y","p","e">>, <<"t","y","p","e","/","d","a","t","e">>,
      <<"d","a","t","e">>, <<"t","y","p","e">>, <<"u","s","e","r">>, <<>>,
      <<"u","p","d","a","t","e","s">>, <<"D","a","t","e","/","T","y","p","e">> }

DateFormats ==
    { <<"2","0","0","6","-","0","1","-","0","2">>, <<"2","0","0","6","0","1">>,
      <<"Y","Y","Y","Y","-","M","M">> }

NamingStrategies == {"uuid", "timestamp", "original", "", "UUID", "custom"}

UploadDirs == { <<".","/","u","p","l","o","a","d","s">>, <<"/","d","a","t","a","/">> }

StorageConfigs ==
    [Organization : [Pattern : OrgPatterns, DateFormat : DateFormats,
                     IncludeTime : BOOLEAN,
                     Naming : [Strategy : NamingStrategies,
                               PreserveExtension : BOOLEAN]],
     Storage : [UploadDir : UploadDirs]]

\* Names of uploaded files: with an extension, in upper case, doubled,
\* without one, beginning with a dot, ending in one.
OriginalNames ==
    { <<"r","e","p","o","r","t",".","p","d","f">>, <<"P",".","J","P","G">>,
      <<"a",".","t","a","r",".","g","z">>, <<"R","E","A","D","M","E">>,
      <<".","e","n","v">>, <<"f","i","l","e",".">> }

\* Readings of the wall clock (UTC).
Clocks ==
    { [year |-> 2024, month |-> 1, day |-> 15, hour |-> 9, minute |-> 5, second |-> 7,
       unix |-> 1705309507, nsec |-> 42],
      [year |-> 2024, month |-> 12, day |-> 31, hour |-> 23, minute |-> 59, second |-> 59,
       unix |-> 1735689599, nsec |-> 999999999] }

\* Values of uuid.NewRandom().String().
UUIDs ==
    { <<"0","1","2","3","4","5","6","7","-","8","9","a","b","-","4","c","d","e","-",
        "8","f","0","1","-","2","3","4","5","6","7","8","9","a","b","c","d">>,
      <<"f","e","d","c","b","a","9","8","-","7","6","5","4","-","4","3","2","1","-",
        "a","0","f","e","-","d","c","b","a","9","8","7","6","5","4","3","2">> }

\* NewFileService
InitPath ==
    /\ config \in StorageConfigs
    /\ call = Idle
    /\ disk = NoFiles
    /\ db = NoRecords

\* ProcessMultipleFiles' call of GenerateFilePath for one file, with the file
\* type it passes, the extension of the file's name.
DoGenerateFilePath ==
    /\ call = Idle
    /\ \E originalName \in OriginalNames, now \in Clocks, stamp \in Clocks, id \in UUIDs :
           call' = [op |-> "GenerateFilePath", originalName |-> originalName,
                    fileType |-> GetFileExtension(originalName),
                    now |-> now, id |-> id, stamp |-> stamp,
                    ret |-> GenerateFilePath(originalName,
                                             GetFileExtension(originalName),
                                             now, id, stamp)]
    /\ UNCHANGED <<config, disk, db>>

NextPath == DoGenerateFilePath \/ Return

SpecPath == InitPath /\ [][NextPath]_vars

(***************************************************************************)
(* internal/services/file_service.go: the hash of a stored file.           *)
(***************************************************************************)

\* A returned (hash, nil) and the returned ("", error).
HashOk(hash) == [hash |-> hash, err |-> ""]

HashErr(code) == [hash |-> "", err |-> code]

\* The body of CalculateFileHash, on the files d of the upload directory:
\* the file is opened, and closed on return; nothing is read from it.
hashOfFile(d, filePath) ==
    IF filePath \notin DOMAIN d THEN HashErr("FILE_OPEN_ERROR")
    ELSE HashOk("placeholder_hash")

\* CalculateFileHash deriving the digest from the path of the file.
CalculateFileHashOfPath(filePath) ==
    IF filePath \notin DOMAIN disk THEN HashErr("FILE_OPEN_ERROR")
    ELSE HashOk(filePath)

\* FileService.CalculateFileHash
CalculateFileHash(filePath) == hashOfFile(disk, filePath)

\* Paths of stored files, under different directories and names.
DiskPaths ==
    { <<"u","p","/","a",".","p","d","f">>, <<"u","p","/","b",".","p","d","f">>,
      <<"u","p","/","2","0","2","4","/","a",".","p","d","f">> }

\* A path no file is stored at.
MissingPath == <<"u","p","/","n","o","n","e">>

\* File contents, as bytes.
Contents == { <<>>, <<37, 80, 68, 70>>, <<137, 80, 78, 71>> }

\* The storage directories: any of the paths holding any of the contents.
DiskImages == UNION { [paths -> Contents] : paths \in SUBSET DiskPaths }

\* Scenario B's configuration.
ScenarioB ==
    [Organization |-> [Pattern |-> <<"d","a","t","e","/","t","y","p","e">>,
                       DateFormat |-> <<"2","0","0","6","-","0","1","-","0","2">>,
                       IncludeTime |-> FALSE,
                       Naming |-> [Strategy |-> "uuid", PreserveExtension |-> TRUE]],
     Storage |-> [UploadDir |-> <<"u","p">>]]

InitHash ==
    /\ config = ScenarioB
    /\ call = Idle
    /\ disk \in DiskImages
    /\ db = NoRecords

\* A call of FileService.CalculateFileHash.
DoCalculateFileHash ==
    /\ call = Idle
    /\ \E filePath \in DiskPaths \cup {MissingPath} :
           call' = [op |-> "CalculateFileHash", filePath |-> filePath,
                    ret |-> CalculateFileHash(filePath)]
    /\ UNCHANGED <<config, disk, db>>

NextHash == DoCalculateFileHash \/ Return

SpecHash == InitHash /\ [][NextHash]_vars

(***************************************************************************)
(* Properties of ValidateFile (specification Spec).                        *)
(***************************************************************************)

Validated == call.op = "ValidateFile"

\* Rule i matches the file of the call.
RuleMatches(i) ==
    matchesRule(fileExt(call.filename), call.filename, call.mimeType, config.Rules[i])

\* Rule i is the lowest-index rule matching the file of the call.
FirstMatch(i) ==
    /\ RuleMatches(i)
    /\ \A j \in 1..(i - 1) : ~RuleMatches(j)

NoRuleMatches == \A i \in 1..Len(config.Rules) : ~RuleMatches(i)

\* The text of the size limit an allow rule applies: its own, or the default.
EffectiveMaxSize(rule) ==
    IF rule.MaxSize # <<>> THEN rule.MaxSize ELSE config.DefaultMaxSize

\* C1: ValidateFile is first-match-wins: when some rule matches, the result
\* carries the name and the reference of the lowest-index matching rule and
\* is that rule's verdict on the file, whatever the rules after it are.
C1_FirstMatchWins ==
    Validated =>
        \A i \in 1..Len(config.Rules) :
            FirstMatch(i) =>
                /\ call.ret.RuleName = config.Rules[i].Name
                /\ call.ret.MatchedRule = <<config.Rules[i]>>
                /\ call.ret = applyRule(config.Rules[i], call.fileSize,
                                        fileExt(call.filename))

\* Two rules match the file, the first allows and the second blocks, and the
\* result is the first's.
C1_Witness ==
    /\ Validated
    /\ Len(config.Rules) = 2
    /\ RuleMatches(1) /\ RuleMatches(2)
    /\ config.Rules[1].Allow /\ ~config.Rules[2].Allow
    /\ call.ret.RuleName = config.Rules[1].Name
    /\ call.ret.IsAllowed

\* C2: when the first matching rule allows and its effective size limit
\* parses, a file larger than the limit is not allowed, and the reason names
\* the file's size and the limit.
C2_OversizeRejected ==
    Validated =>
        \A i \in 1..Len(config.Rules) :
            LET rule == config.Rules[i]
                limit == ParseSizeString(EffectiveMaxSize(rule))
            IN  (FirstMatch(i) /\ rule.Allow /\ limit.ok /\ call.fileSize > limit.size) =>
                    /\ call.ret.IsAllowed = FALSE
                    /\ Len(call.ret.Reason.args) >= 2
                    /\ call.ret.Reason.args[1] = FormatFileSize(call.fileSize)
                    /\ call.ret.Reason.args[2] \in
                           {rule.MaxSize, FormatFileSize(limit.size)}

\* C3: when no rule matches and the default action is allow, a file larger
\* than the default max size is not allowed, and any other file is allowed
\* with the default max size.
C3_DefaultAllowSizeChecked ==
    (Validated /\ NoRuleMatches /\ config.DefaultAction = <<"a","l","l","o","w">>) =>
        IF call.fileSize > GetDefaultMaxFileSize(config)
        THEN call.ret.IsAllowed = FALSE
        ELSE call.ret.IsAllowed /\ call.ret.MaxSize = GetDefaultMaxFileSize(config)

\* C4: when the first matching rule allows and its maxSize does not parse,
\* the file is not allowed, with a reason naming the rule.
C4_BadSizeRejected ==
    Validated =>
        \A i \in 1..Len(config.Rules) :
            LET rule == config.Rules[i] IN
            (FirstMatch(i) /\ rule.Allow /\ rule.MaxSize # <<>>
                 /\ ~ParseSizeString(rule.MaxSize).ok) =>
                    /\ call.ret.IsAllowed = FALSE
                    /\ call.ret.Reason.args # <<>>
                    /\ call.ret.Reason.args[1] = rule.Name

\* The size texts a rule may carry: absent, parsable, unparsable.
MaxSizeChoices == { <<>>, <<"1","K","B">>, <<"5","M","B">>, <<"5","m","b">> }

\* C5: when the first matching rule blocks, the file is not allowed, the
\* reason names the rule, and no size is checked: the verdict, the reason and
\* the max size are the same for every maxSize the rule could carry.
C5_BlockWithoutSizeCheck ==
    Validated =>
        \A i \in 1..Len(config.Rules) :
            LET rule == config.Rules[i] IN
            (FirstMatch(i) /\ ~rule.Allow) =>
                /\ call.ret.IsAllowed = FALSE
                /\ call.ret.Reason = Sprintf("File blocked by rule '%s'", <<rule.Name>>)
                /\ call.ret.MaxSize = 0
                /\ \A ms \in MaxSizeChoices :
                       LET alt == applyRule([rule EXCEPT !.MaxSize = ms], call.fileSize,
                                            fileExt(call.filename))
                       IN  /\ alt.IsAllowed = call.ret.IsAllowed
                           /\ alt.Reason = call.ret.Reason
                           /\ alt.MaxSize = call.ret.MaxSize

\* A blocking rule with a 1KB limit is the first match for a file over 1KB.
C5_Witness ==
    /\ Validated
    /\ \E i \in 1..Len(config.Rules) :
           /\ FirstMatch(i)
           /\ ~config.Rules[i].Allow
           /\ config.Rules[i].MaxSize = <<"1","K","B">>
    /\ call.fileSize > 1024
    /\ call.ret.IsAllowed = FALSE

\* C7: when no rule matches and the default action is block, the file is not
\* allowed whatever its size, the reason cites its extension, the rule name
\* is the default-action sentinel and there is no matched rule.
C7_DefaultBlock ==
    (Validated /\ NoRuleMatches /\ config.DefaultAction = <<"b","l","o","c","k">>) =>
        /\ call.ret.IsAllowed = FALSE
        /\ call.ret.Reason.args = <<fileExt(call.filename)>>
        /\ call.ret.Reason.fmt =
               "File type .%s not covered by any rules, default action is to block"
        /\ call.ret.RuleName = "Default Action"
        /\ call.ret.MatchedRule = <<>>

\* Scenario A's third upload: a 1KB pdf no rule covers, under default block.
C7_Witness ==
    /\ Validated
    /\ config.Rules = <<RuleImages>>
    /\ config.DefaultAction = <<"b","l","o","c","k">>
    /\ call.filename = <<"d",".","p","d","f">>
    /\ call.fileSize = 1024
    /\ call.ret.IsAllowed = FALSE
    /\ call.ret.MatchedRule = <<>>

\* C8: when the first matching rule allows and the file is no larger than
\* the effective limit, the file is allowed with maxSize the parsed
\* rule.maxSize if the rule has one, else the parsed default max size; a rule
\* of "5MB" gives 5242880.
C8_AllowedWithEffectiveMax ==
    Validated =>
        \A i \in 1..Len(config.Rules) :
            LET rule == config.Rules[i]
                limit == ParseSizeString(EffectiveMaxSize(rule))
            IN  (FirstMatch(i) /\ rule.Allow /\ limit.ok /\ call.fileSize <= limit.size) =>
                    /\ call.ret.IsAllowed
                    /\ call.ret.MaxSize = limit.size
                    /\ rule.MaxSize = <<"5","M","B">> => call.ret.MaxSize = 5242880
                    /\ (rule.MaxSize = <<>> /\ config.DefaultMaxSize = <<"1","0","M","B">>)
                           => call.ret.MaxSize = 10485760

\* Scenario A's first upload: a 4MB jpg under the images rule.
C8_Witness ==
    /\ Validated
    /\ config.Rules = <<RuleImages>>
    /\ call.filename = <<"p",".","j","p","g">>
    /\ call.fileSize = 4194304
    /\ call.ret.IsAllowed
    /\ call.ret.MaxSize = 5242880

(***************************************************************************)
(* Properties of the matchers (specification SpecMatch).                   *)
(***************************************************************************)

\* C6: a rule matches a file iff the extension equals one of its extensions,
\* or the file name matches one of its patterns, or the MIME type matches one
\* of its MIME types; a rule with the three lists empty matches no file.
C6_RuleMatchIsDisjunction ==
    call.op = "matchesRule" =>
        LET rule == call.rule IN
        /\ call.ret =
               (\/ \E k \in 1..Len(rule.Extensions) :
                       EqualFold(call.ext, rule.Extensions[k])
                \/ \E k \in 1..Len(rule.Patterns) :
                       matchesPattern(call.filename, rule.Patterns[k])
                \/ \E k \in 1..Len(rule.MimeTypes) :
                       matchesMimeType(call.mimeType, rule.MimeTypes[k]))
        /\ (rule.Extensions = <<>> /\ rule.Patterns = <<>> /\ rule.MimeTypes = <<>>)
               => call.ret = FALSE

\* A rule with extensions and MIME types matches a file by its MIME type
\* alone.
C6_Witness ==
    /\ call.op = "matchesRule"
    /\ call.rule = RuleMixed
    /\ call.ext = <<"p","d","f">>
    /\ call.mimeType = <<"t","e","x","t","/","p","l","a","i","n">>
    /\ call.ret = TRUE

\* Glob semantics as the claim states them: "*" any run of characters, "?"
\* exactly one character, any other character itself, the whole name matched.
RECURSIVE GlobMatches(_, _)
GlobMatches(pattern, name) ==
    IF pattern = <<>> THEN name = <<>>
    ELSE IF Head(pattern) = "*"
         THEN \/ GlobMatches(Tail(pattern), name)
              \/ name # <<>> /\ GlobMatches(pattern, Tail(name))
    ELSE IF Head(pattern) = "?"
         THEN name # <<>> /\ GlobMatches(Tail(pattern), Tail(name))
    ELSE name # <<>> /\ Head(name) = Head(pattern)
             /\ GlobMatches(Tail(pattern), Tail(name))

\* C9: matchesPattern is glob matching anchored to the whole file name, case
\* sensitive: "*" matches any run of characters, "?" exactly one character,
\* every other pattern character only itself.
C9_GlobSemantics ==
    call.op = "matchesPattern" => call.ret = GlobMatches(call.pattern, call.filename)

\* The same, for file names without a line feed.
C9_GlobSemanticsOneLine ==
    (call.op = "matchesPattern" /\ \A k \in 1..Len(call.filename) : call.filename[k] # "\n")
        => call.ret = GlobMatches(call.pattern, call.filename)

\* The declared type starts with the pattern less its final "*".
StartsWithTopLevel(actual, pattern) ==
    /\ Len(pattern) >= 2
    /\ pattern[Len(pattern) - 1] = "/"
    /\ pattern[Len(pattern)] = "*"
    /\ Len(actual) >= Len(pattern) - 1
    /\ \A k \in 1..(Len(pattern) - 1) : actual[k] = pattern[k]

\* C10: a declared MIME type matches a rule's MIME pattern iff it is the same
\* string, or the pattern ends in "/*" and the declared type starts with the
\* pattern's top-level type followed by "/"; both matchers agree on it.
C10_MimeMatch ==
    call.op \in {"matchesMimeType", "utils.MatchesMimeType"} =>
        call.ret = (call.actual = call.pattern
                        \/ StartsWithTopLevel(call.actual, call.pattern))

\* "image/*" matches "image/png".
C10_Witness ==
    /\ call.op = "matchesMimeType"
    /\ call.pattern = <<"i","m","a","g","e","/","*">>
    /\ call.actual = <<"i","m","a","g","e","/","p","n","g">>
    /\ call.ret = TRUE

\* The text after the last dot of a name; empty when the name has no dot.
AfterLastDot(name) ==
    LET dots == {k \in 1..Len(name) : name[k] = "."} IN
    IF dots = {} THEN <<>>
    ELSE SubSeq(name, (CHOOSE k \in dots : \A d \in dots : d <= k) + 1, Len(name))

\* Equality of two texts once both are written in lower case.
SameIgnoringCase(s, t) ==
    /\ Len(s) = Len(t)
    /\ \A k \in 1..Len(s) : ToLowerChar(s[k]) = ToLowerChar(t[k])

\* C11: the extension a file is matched by is the text after the last dot of
\* its name, in lower case (empty without a dot), and it matches a rule's
\* extension when the two are equal ignoring case on both sides: a rule
\* listing an equal extension matches, and a rule with extensions only
\* matches exactly the files whose extension equals one of them.
C11_ExtensionIgnoresCase ==
    call.op = "matchesRule" =>
        LET rule == call.rule
            hit == \E k \in 1..Len(rule.Extensions) :
                       SameIgnoringCase(AfterLastDot(call.filename), rule.Extensions[k])
        IN  /\ call.ext = ToLower(AfterLastDot(call.filename))
            /\ hit => call.ret = TRUE
            /\ (rule.Patterns = <<>> /\ rule.MimeTypes = <<>>) => call.ret = hit

\* "PHOTO.JPG" matches the rule listing "jpg".
C11_Witness ==
    /\ call.op = "matchesRule"
    /\ call.filename = <<"P","H","O","T","O",".","J","P","G">>
    /\ call.rule = RuleImages
    /\ call.ext = <<"j","p","g">>
    /\ call.ret = TRUE

(***************************************************************************)
(* Properties of the size parser and formatter (specification SpecSize).   *)
(***************************************************************************)

UnitSuffixes == << <<"B">>, <<"K","B">>, <<"M","B">>, <<"G","B">>, <<"T","B">> >>

\* A decimal magnitude: digits with at most one decimal point and at least
\* one digit, after an optional sign.
IsMagnitude(s) ==
    LET u == Unsigned(s) IN
    /\ \A k \in 1..Len(u) : IsDigit(u[k]) \/ u[k] = "."
    /\ Cardinality({k \in 1..Len(u) : u[k] = "."}) <= 1
    /\ \E k \in 1..Len(u) : IsDigit(u[k])

\* A bare integer: digits after an optional sign.
IsBareInteger(s) ==
    /\ Unsigned(s) # <<>>
    /\ \A k \in 1..Len(Unsigned(s)) : IsDigit(Unsigned(s)[k])

\* The text is a magnitude followed by the k-th unit and nothing else.
HasUnit(t, k) ==
    /\ HasSuffix(t, UnitSuffixes[k])
    /\ IsMagnitude(SubSeq(t, 1, Len(t) - Len(UnitSuffixes[k])))

\* A well-formed size, white space around it aside: a magnitude followed by
\* exactly one unit, or a bare integer.
WellFormedSize(text) ==
    LET t == TrimSpace(text) IN
    IsBareInteger(t) \/ \E k \in 1..Len(UnitSuffixes) : HasUnit(t, k)

\* C12: ParseSizeString returns an error for every text that is neither a
\* decimal magnitude followed by exactly one of B, KB, MB, GB, TB nor a bare
\* integer: the empty text, a magnitude that is no number, a lower-case or
\* unknown unit, stacked units such as "10KBB" and "5MBKB".
C12_IllFormedRejected ==
    (call.op = "ParseSizeString" /\ ~WellFormedSize(call.sizeStr)) => ~call.ret.ok

\* The same, for texts in which no unit follows another.
C12_IllFormedRejectedNoStack ==
    (call.op = "ParseSizeString" /\ ~WellFormedSize(call.sizeStr)
         /\ \A j, k \in 1..Len(UnitSuffixes) :
                ~HasSuffix(TrimSpace(call.sizeStr), UnitSuffixes[j] \o UnitSuffixes[k]))
        => ~call.ret.ok

\* The value of a magnitude as a fraction: its digits over ten to the number
\* of digits after the decimal point.
MagnitudeNum(s) == DecVal(SelectSeq(Unsigned(s), IsDigit))

MagnitudeDen(s) ==
    IF DotIndex(Unsigned(s)) = 0 THEN 1
    ELSE Pow(10, Len(Unsigned(s)) - DotIndex(Unsigned(s)))

\* magnitude * 1024^e, truncated toward zero.
MagnitudeTimes(s, e) ==
    WithSign(IsNegative(s),
             ScaleBy1024(MagnitudeNum(s) \div MagnitudeDen(s),
                         MagnitudeNum(s) % MagnitudeDen(s), MagnitudeDen(s), e))

\* The magnitude of a text that ends in the k-th unit.
MagnitudeOf(t, k) == SubSeq(t, 1, Len(t) - Len(UnitSuffixes[k]))

\* C13: for every well-formed text ParseSizeString returns the magnitude
\* times 1024^k, k = 0, 1, 2, 3, 4 for B, KB, MB, GB, TB, truncated toward
\* zero, and for a bare integer the integer itself.
C13_WellFormedValue ==
    call.op = "ParseSizeString" =>
        LET t == TrimSpace(call.sizeStr) IN
        /\ IsBareInteger(t) =>
               call.ret.ok /\ call.ret.size = MagnitudeTimes(t, 0)
        /\ \A k \in 1..Len(UnitSuffixes) :
               HasUnit(t, k) =>
                   /\ call.ret.ok
                   /\ call.ret.size = MagnitudeTimes(MagnitudeOf(t, k), k - 1)

\* The same, with the magnitude before the unit B a bare integer.
C13_WellFormedValueWholeBytes ==
    call.op = "ParseSizeString" =>
        LET t == TrimSpace(call.sizeStr) IN
        /\ IsBareInteger(t) =>
               call.ret.ok /\ call.ret.size = MagnitudeTimes(t, 0)
        /\ \A k \in 1..Len(UnitSuffixes) :
               (HasUnit(t, k) /\ (k = 1 => IsBareInteger(MagnitudeOf(t, k)))) =>
                   /\ call.ret.ok
                   /\ call.ret.size = MagnitudeTimes(MagnitudeOf(t, k), k - 1)

\* The power-of-1024 band of a byte count: the k with 1024^k <= n < 1024^(k+1),
\* and 0 below 1024.
RECURSIVE UnitBand(_)
UnitBand(n) == IF n < 1024 THEN 0 ELSE 1 + UnitBand(n \div 1024)

\* C14: for every byte count n >= 0, ParseSizeString(FormatFileSize(n))
\* succeeds and returns a value in the same power-of-1024 band as n.
C14_FormatThenParse ==
    call.op = "FormatFileSize" =>
        /\ ParseSizeString(call.ret).ok
        /\ UnitBand(ParseSizeString(call.ret).size) = UnitBand(call.bytes)

UnitLetters == <<"K", "M", "G", "T", "P", "E">>

\* The parts of a rendering "<whole>.<tenth><unit>".
RenderedWhole(text) == SubSeq(text, 1, DotIndex(text) - 1)

RenderedTenth(text) == SubSeq(text, DotIndex(text) + 1, DotIndex(text) + 1)

RenderedUnit(text) == SubSeq(text, DotIndex(text) + 2, Len(text))

\* The rendering is n / 1024^k to one decimal place, followed by the unit of
\* band k.
RendersInBand(text, n, k) ==
    /\ DotIndex(text) > 1
    /\ Len(text) > DotIndex(text)
    /\ AllDigits(RenderedWhole(text)) /\ AllDigits(RenderedTenth(text))
    /\ RenderedUnit(text) \in { <<UnitLetters[k], "B">>, <<" ", UnitLetters[k], "B">> }
    /\ DecVal(RenderedWhole(text) \o RenderedTenth(text))
           \in { (n * 10) \div Pow(1024, k), (n * 10) \div Pow(1024, k) + 1 }

\* C15: FormatFileSize renders n < 1024 as the integer n followed by B, and
\* n >= 1024 in the unit 1024^k with 1024^k <= n < 1024^(k+1), as n / 1024^k
\* with one decimal place, so that the rendered magnitude is below 1024.
C15_FormatUnitBelow1024 ==
    call.op = "FormatFileSize" =>
        IF call.bytes < 1024
        THEN call.ret \in { NatToStr(call.bytes) \o <<"B">>,
                            NatToStr(call.bytes) \o <<" ", "B">> }
        ELSE /\ RendersInBand(call.ret, call.bytes, UnitBand(call.bytes))
             /\ DecVal(RenderedWhole(call.ret)) < 1024

\* The same, without the bound on the rendered magnitude.
C15_FormatUnit ==
    call.op = "FormatFileSize" =>
        IF call.bytes < 1024
        THEN call.ret \in { NatToStr(call.bytes) \o <<"B">>,
                            NatToStr(call.bytes) \o <<" ", "B">> }
        ELSE RendersInBand(call.ret, call.bytes, UnitBand(call.bytes))

(***************************************************************************)
(* Properties of the storage path and the stored name (specification       *)
(* SpecPath).                                                              *)
(***************************************************************************)

\* A call of GenerateFilePath that returned a path.
PathGenerated == call.op = "GenerateFilePath" /\ call.ret.err = ""

HasDateToken == Contains(config.Organization.Pattern, <<"d","a","t","e">>)

HasTypeToken == Contains(config.Organization.Pattern, <<"t","y","p","e">>)

\* The segments of the returned path between the upload root and the stored
\* name (which takes no segment when it is empty): the storage directory.
DirSegments ==
    SubSeq(SplitPath(call.ret.fullPath, <<>>),
           Len(SplitPath(Clean(config.Storage.UploadDir), <<>>)) + 1,
           Len(SplitPath(call.ret.fullPath, <<>>))
               - (IF call.ret.fileName = <<>> THEN 0 ELSE 1))

\* The layout the date segment is written in.
LayoutInEffect ==
    IF config.Organization.IncludeTime
    THEN <<"2","0","0","6","-","0","1","-","0","2","-","1","5">>
    ELSE config.Organization.DateFormat

\* The directory has one segment per token present, date before type.
OneSegmentPerToken ==
    /\ Len(DirSegments) = (IF HasDateToken THEN 1 ELSE 0) + (IF HasTypeToken THEN 1 ELSE 0)
    /\ HasDateToken => DirSegments[1] = Format(call.now, LayoutInEffect)
    /\ HasTypeToken => DirSegments[Len(DirSegments)] = call.fileType
    /\ (~HasDateToken /\ ~HasTypeToken) =>
           call.ret.fullPath = Join(<<config.Storage.UploadDir, call.ret.fileName>>)

\* Scenario B: pattern "date/type", the day format, the clock at 2024-01-15
\* and file type "pdf".
IsScenarioB ==
    /\ config.Organization.Pattern = <<"d","a","t","e","/","t","y","p","e">>
    /\ config.Organization.DateFormat = <<"2","0","0","6","-","0","1","-","0","2">>
    /\ ~config.Organization.IncludeTime
    /\ call.now.year = 2024 /\ call.now.month = 1 /\ call.now.day = 15
    /\ call.fileType = <<"p","d","f">>

\* C16: the storage directory GenerateFilePath composes has one segment per
\* token ("date", "type") occurring in the organization pattern, the date
\* segment before the type segment, and no segment when neither occurs;
\* scenario B gives "2024-01-15/pdf".
C16_DirectorySegments ==
    PathGenerated =>
        /\ OneSegmentPerToken
        /\ IsScenarioB =>
               JoinSlash(DirSegments) = <<"2","0","2","4","-","0","1","-","1","5","/","p","d","f">>

\* The same, for files whose name has an extension.
C16_DirectorySegmentsWithType ==
    (PathGenerated /\ call.fileType # <<>>) =>
        /\ OneSegmentPerToken
        /\ IsScenarioB =>
               JoinSlash(DirSegments) = <<"2","0","2","4","-","0","1","-","1","5","/","p","d","f">>

\* A clock reading written as year-month-day and as year-month-day-hour.
DayText(t) ==
    ZeroPad(NatToStr(t.year), 4) \o <<"-">> \o ZeroPad(NatToStr(t.month), 2)
        \o <<"-">> \o ZeroPad(NatToStr(t.day), 2)

HourText(t) == DayText(t) \o <<"-">> \o ZeroPad(NatToStr(t.hour), 2)

\* C17: the date segment is the current time in the configured date format
\* when include-time is off, and in the fixed year-month-day-hour format when
\* include-time is on, whatever the configured format.
C17_DateSegment ==
    (PathGenerated /\ HasDateToken) =>
        IF config.Organization.IncludeTime
        THEN DirSegments[1] = HourText(call.now)
        ELSE /\ DirSegments[1] = Format(call.now, config.Organization.DateFormat)
             /\ config.Organization.DateFormat = <<"2","0","0","6","-","0","1","-","0","2">>
                    => DirSegments[1] = DayText(call.now)

\* With include-time on and the month format configured, the segment of the
\* clock at 2024-01-15 09:05 is "2024-01-15-09".
C17_Witness ==
    /\ PathGenerated /\ HasDateToken
    /\ config.Organization.IncludeTime
    /\ config.Organization.DateFormat = <<"2","0","0","6","0","1">>
    /\ call.now.hour = 9
    /\ DirSegments[1] = <<"2","0","2","4","-","0","1","-","1","5","-","0","9">>

FromLastDot(name) ==
    IF \E k \in 1..Len(name) : name[k] = "."
    THEN SubSeq(name, Len(name) - Len(AfterLastDot(name)), Len(name))
    ELSE <<>>

\* The identifier a generated name begins with: the UUID, or the clock's
\* nanoseconds in decimal.
Identifier ==
    IF config.Organization.Naming.Strategy = "uuid" THEN call.id
    ELSE UnixNanoText(call.stamp)

\* C19: with preserveExtension a uuid or timestamp name is the identifier
\* followed by the suffix of the original name from its last dot (nothing
\* without a dot) and the original strategy returns the name as it is;
\* without it a uuid or timestamp name is the bare identifier and the
\* original strategy returns the name less that suffix.
C19_ExtensionIffPreserved ==
    PathGenerated =>
        IF config.Organization.Naming.Strategy \in {"uuid", "timestamp"}
        THEN IF config.Organization.Naming.PreserveExtension
             THEN call.ret.fileName = Identifier \o FromLastDot(call.originalName)
             ELSE call.ret.fileName = Identifier
        ELSE IF config.Organization.Naming.PreserveExtension
             THEN call.ret.fileName = call.originalName
             ELSE call.ret.fileName \o FromLastDot(call.originalName) = call.originalName

\* Without preserveExtension the uuid name of "report.pdf" is the bare UUID.
C19_Witness ==
    /\ PathGenerated
    /\ config.Organization.Naming.Strategy = "uuid"
    /\ ~config.Organization.Naming.PreserveExtension
    /\ call.originalName = <<"r","e","p","o","r","t",".","p","d","f">>
    /\ call.ret.fileName = call.id

(***************************************************************************)
(* Properties of the file hash (specification SpecHash).                   *)
(***************************************************************************)

\* C20: the digest of a file depends on its bytes only: every stored file
\* with the same bytes as the hashed one, whatever its name and directory,
\* has the digest the call returned, and so has the hashed file itself when
\* hashed again.
C20_SameBytesSameDigest ==
    (call.op = "CalculateFileHash" /\ call.ret.err = "") =>
        \A other \in DOMAIN disk :
            disk[other] = disk[call.filePath] =>
                CalculateFileHash(other) = call.ret

\* A file is hashed while another path holds the same non-empty bytes.
C20_Witness ==
    /\ call.op = "CalculateFileHash"
    /\ call.ret.err = ""
    /\ \E other \in DOMAIN disk :
           /\ other # call.filePath
           /\ disk[other] = disk[call.filePath]
           /\ disk[other] # <<>>
           /\ CalculateFileHash(other).hash = call.ret.hash

\* C21: the hasher is a real digest, not a stub: it does not give every
\* readable file the same string, so among stored files with different bytes
\* there are two whose digests differ.
C21_DigestTellsFilesApart ==
    (call.op = "CalculateFileHash" /\ call.ret.err = ""
         /\ \E other \in DOMAIN disk : disk[other] # disk[call.filePath]) =>
        \E other \in DOMAIN disk :
            /\ disk[other] # disk[call.filePath]
            /\ CalculateFileHash(other).hash # call.ret.hash

(***************************************************************************)
(* internal/services/file_service.go: the service's validation of one      *)
(* uploaded file, with the content check of strict mode.                   *)
(***************************************************************************)

\* The length of validateMimeType's buffer, and the number of bytes
\* http.DetectContentType looks at.
sniffLen == 512

\* validateMimeType's buffer after src.Read: 512 zero bytes, the first of them
\* overwritten by the bytes the file has.
ReadBuffer(content) ==
    [i \in 1..sniffLen |-> IF i <= Len(content) THEN content[i] ELSE 0]

\* net/http isWS
isWS(b) == b \in {9, 10, 12, 13, 32}

\* net/http textSig: the bytes that make data binary
isBinary(b) == b <= 8 \/ b = 11 \/ (14 <= b /\ b <= 26) \/ (28 <= b /\ b <= 31)

\* DetectContentType's index of the first byte that is not white space.
RECURSIVE firstNonWS(_, _)
firstNonWS(data, i) ==
    IF i <= Len(data) /\ isWS(data[i]) THEN firstNonWS(data, i + 1) ELSE i

\* net/http textSig.match
textSig(data, from) == \A i \in from..Len(data) : ~isBinary(data[i])

\* net/http exactSig.match
exactSig(data, sig) == HasPrefix(data, sig)

\* http.DetectContentType, with the signatures the files of the model can
\* carry, in the order of the library's table.
DetectContentType(data) ==
    LET d == IF Len(data) > sniffLen THEN SubSeq(data, 1, sniffLen) ELSE data IN
    IF exactSig(d, <<37, 80, 68, 70, 45>>) THEN <<"a","p","p","l","i","c","a","t","i","o","n","/","p","d","f">>
    ELSE IF exactSig(d, <<71, 73, 70, 56, 55, 97>>) \/ exactSig(d, <<71, 73, 70, 56, 57, 97>>)
    THEN <<"i","m","a","g","e","/","g","i","f">>
    ELSE IF exactSig(d, <<137, 80, 78, 71, 13, 10, 26, 10>>) THEN <<"i","m","a","g","e","/","p","n","g">>
    ELSE IF exactSig(d, <<255, 216, 255>>) THEN <<"i","m","a","g","e","/","j","p","e","g">>
    ELSE IF textSig(d, firstNonWS(d, 1)) THEN <<"t","e","x","t","/","p","l","a","i","n",";"," ","c","h","a","r","s","e","t","=","u","t","f","-","8">>
    ELSE <<"a","p","p","l","i","c","a","t","i","o","n","/","o","c","t","e","t","-","s","t","r","e","a","m">>

\* utils.IsValidMimeType
RECURSIVE IsValidMimeTypeFrom(_, _, _)
IsValidMimeTypeFrom(actual, expectedPatterns, i) ==
    IF i > Len(expectedPatterns) THEN FALSE
    ELSE IF MatchesMimeType(actual, expectedPatterns[i]) THEN TRUE
    ELSE IsValidMimeTypeFrom(actual, expectedPatterns, i + 1)

IsValidMimeType(actual, expectedPatterns) ==
    IsValidMimeTypeFrom(actual, expectedPatterns, 1)

\* FileService.validateMimeTypeAgainstRule: the code of its error, "" for nil.
validateMimeTypeAgainstRule(detectedType, rule) ==
    IF ~IsValidMimeType(detectedType, rule.MimeTypes) THEN "MIME_TYPE_MISMATCH" ELSE ""

\* FileService.validateMimeType, for a file that opens and reads.
validateMimeType(file, validationResult) ==
    LET detectedType == DetectContentType(ReadBuffer(file.Content)) IN
    IF validationResult.MatchedRule # <<>>
           /\ Len(validationResult.MatchedRule[1].MimeTypes) > 0
    THEN validateMimeTypeAgainstRule(detectedType, validationResult.MatchedRule[1])
    ELSE ""

\* The MIME type FileService.ValidateFile hands to the engine.
declaredType(file) ==
    IF file.ContentType = <<>> THEN <<"a","p","p","l","i","c","a","t","i","o","n","/","o","c","t","e","t","-","s","t","r","e","a","m">> ELSE file.ContentType

\* FileService.ValidateFile: the code of its error, "" for nil.  The size of
\* a file is the number of its bytes.
ServiceValidateFile(file) ==
    LET validationResult ==
            ValidateFile(file.Filename, declaredType(file), Len(file.Content)) IN
    IF ~validationResult.IsAllowed THEN "FILE_BLOCKED"
    ELSE IF config.StrictMimeValidation THEN validateMimeType(file, validationResult)
    ELSE ""

\* FileService.GetMaxFileSizeForExtension
GetMaxFileSizeForExtension(extension) ==
    ValidateFile(extension, <<>>, 0).MaxSize

(***************************************************************************)
(* The service asked about uploaded files and about extensions.            *)
(***************************************************************************)

\* Text files and PDF files, checked by content.
RuleText ==
    [Name |-> "text", Extensions |-> << <<"t","x","t">> >>, Patterns |-> NoList,
     MimeTypes |-> << <<"t","e","x","t","/","*">> >>, MaxSize |-> <<>>, Allow |-> TRUE]

RulePdf ==
    [Name |-> "pdf", Extensions |-> << <<"p","d","f">> >>, Patterns |-> NoList,
     MimeTypes |-> << <<"a","p","p","l","i","c","a","t","i","o","n","/","p","d","f">> >>, MaxSize |-> <<"1","K","B">>, Allow |-> TRUE]

\* Binary files of any application type.
RuleBin ==
    [Name |-> "bin", Extensions |-> << <<"b","i","n">> >>, Patterns |-> NoList,
     MimeTypes |-> << <<"a","p","p","l","i","c","a","t","i","o","n","/","*">> >>, MaxSize |-> <<>>, Allow |-> TRUE]

ServiceRuleLists ==
    { <<RuleText, RulePdf>>, <<RulePdf, RuleBin>>, <<RuleImages, RuleText>>,
      <<RuleNoPdf, RuleBin>>, <<RuleImages>>, <<>> }

ServiceConfigs ==
    [DefaultMaxSize : {<<"1","0","M","B">>}, DefaultAction : DefaultActions,
     StrictMimeValidation : BOOLEAN, Rules : ServiceRuleLists]

\* 640 bytes of text, more than the buffer holds.
Text10 == <<97, 98, 99, 100, 101, 102, 103, 104, 105, 10>>

Text40 == Text10 \o Text10 \o Text10 \o Text10

Text160 == Text40 \o Text40 \o Text40 \o Text40

LongText == Text160 \o Text160 \o Text160 \o Text160

\* Uploaded bytes: a PDF header, a PNG signature, a short text, a long text,
\* no byte at all.
UploadContents ==
    { <<37, 80, 68, 70, 45, 49, 46, 52, 10>>, <<137, 80, 78, 71, 13, 10, 26, 10>>,
      <<104, 105, 10>>, LongText, <<>> }

UploadNames == { <<"a",".","p","d","f">>, <<"n",".","t","x","t">>, <<"d",".","b","i","n">>, <<"p",".","p","n","g">>, <<"n","o","e","x","t">> }

ContentTypes == { <<>>, <<"a","p","p","l","i","c","a","t","i","o","n","/","p","d","f">>, <<"t","e","x","t","/","p","l","a","i","n">>, <<"i","m","a","g","e","/","p","n","g">> }

\* The parts of a multipart.FileHeader the service reads.
FileHeaders == [Filename : UploadNames, ContentType : ContentTypes, Content : UploadContents]

\* The extensions GetFileLimits asks about, the empty one first.
LimitExtensions == { <<>>, <<"j","p","g">>, <<"p","n","g">>, <<"p","d","f">>, <<"t","x","t">> }

InitService ==
    /\ config \in ServiceConfigs
    /\ call = Idle
    /\ disk = NoFiles
    /\ db = NoRecords

\* A call of FileService.ValidateFile.
DoServiceValidateFile ==
    /\ call = Idle
    /\ \E file \in FileHeaders :
           call' = [op |-> "FileService.ValidateFile", file |-> file,
                    ret |-> [err |-> ServiceValidateFile(file)]]
    /\ UNCHANGED <<config, disk, db>>

\* A call of FileService.GetMaxFileSizeForExtension.
DoGetMaxFileSizeForExtension ==
    /\ call = Idle
    /\ \E extension \in LimitExtensions :
           call' = [op |-> "GetMaxFileSizeForExtension", extension |-> extension,
                    ret |-> GetMaxFileSizeForExtension(extension)]
    /\ UNCHANGED <<config, disk, db>>

NextService ==
    \/ DoServiceValidateFile
    \/ DoGetMaxFileSizeForExtension
    \/ Return

SpecService == InitService /\ [][NextService]_vars

(***************************************************************************)
(* Claims about the service's validation.                                  *)
(***************************************************************************)

\* The engine's verdict on the declared type of the file of the call.
DeclaredPass ==
    ValidateFile(call.file.Filename, declaredType(call.file), Len(call.file.Content))

\* The MIME type sniffed from the first 512 bytes the file has.
SniffedType ==
    DetectContentType(SubSeq(call.file.Content, 1,
        IF Len(call.file.Content) < 512 THEN Len(call.file.Content) ELSE 512))

\* A type matches a rule's type exactly, or by the prefix of a "type/*".
TypeMatches(actual, pattern) ==
    \/ actual = pattern
    \/ /\ HasSuffix(pattern, <<"/","*">>)
       /\ HasPrefix(actual, SubSeq(pattern, 1, Len(pattern) - 1))

\* The content check applies: strict mode, and a matched rule with MIME types.
SniffApplies ==
    /\ config.StrictMimeValidation
    /\ DeclaredPass.MatchedRule # <<>>
    /\ DeclaredPass.MatchedRule[1].MimeTypes # <<>>

\* C22: in strict mode a file allowed by a rule with mimeTypes is accepted
\* only if the type sniffed from its first 512 bytes matches one of them; a
\* mismatch is reported only after the declared pass allowed the file; and
\* without strict mode, without mimeTypes in the matched rule, or under the
\* default action, the declared pass alone decides.
C22_StrictSniff ==
    call.op = "FileService.ValidateFile" =>
        /\ (SniffApplies /\ DeclaredPass.IsAllowed /\ call.ret.err = "") =>
               \E k \in 1..Len(DeclaredPass.MatchedRule[1].MimeTypes) :
                   TypeMatches(SniffedType, DeclaredPass.MatchedRule[1].MimeTypes[k])
        /\ call.ret.err = "MIME_TYPE_MISMATCH" => (SniffApplies /\ DeclaredPass.IsAllowed)
        /\ ~SniffApplies => (call.ret.err = "" <=> DeclaredPass.IsAllowed)

\* A file name with the extension of the call.
NameWithExtension == <<"f",".">> \o call.extension

\* The rule at index i lists the extension of the call, no rule before it
\* matches a file of that extension, and it allows with a size of its own.
OwnLimitRule(i) ==
    /\ config.Rules[i].Allow
    /\ ParseSizeString(config.Rules[i].MaxSize).ok
    /\ \E k \in 1..Len(config.Rules[i].Extensions) :
           SameIgnoringCase(config.Rules[i].Extensions[k], call.extension)
    /\ \A j \in 1..(i - 1) :
           ~matchesRule(call.extension, NameWithExtension, <<>>, config.Rules[j])

\* C24: GetMaxFileSizeForExtension(ext) is the limit ValidateFile applies to a
\* file with that extension: the own maxSize of the allow rule that lists the
\* extension and matches first, not the default max size.
C24_LimitOfExtension ==
    (call.op = "GetMaxFileSizeForExtension" /\ call.extension # <<>>) =>
        /\ call.ret = ValidateFile(NameWithExtension, <<>>, 0).MaxSize
        /\ \A i \in 1..Len(config.Rules) :
               OwnLimitRule(i) => call.ret = ParseSizeString(config.Rules[i].MaxSize).size

(***************************************************************************)
(* internal/constants/validation_rules.go: one engine asked by several     *)
(* goroutines at once.  A call of ValidateFile is taken one rule at a time,*)
(* and the calls interleave between rules; call maps each goroutine to its *)
(* call.                                                                   *)
(***************************************************************************)

Goroutines == {1, 2}

ConcurrentRuleLists ==
    { <<RuleImages, RuleDocs>>, <<RuleNoPdf, RulePics>>, <<RuleNoJpg, RuleImages>>, <<>> }

ConcurrentConfigs ==
    [DefaultMaxSize : {<<"1","0","M","B">>}, DefaultAction : DefaultActions,
     StrictMimeValidation : {FALSE}, Rules : ConcurrentRuleLists]

ConcurrentNames == { <<"p",".","j","p","g">>, <<"d",".","p","d","f">>, <<"n","o","e","x","t">> }

ConcurrentTypes == { <<"i","m","a","g","e","/","p","n","g">>, <<"a","p","p","l","i","c","a","t","i","o","n","/","p","d","f">> }

\* 4MB, 6MB
ConcurrentSizes == {4194304, 6291456}

\* No result yet.
Running == <<>>

InitConcurrent ==
    /\ config \in ConcurrentConfigs
    /\ call = [g \in Goroutines |-> Idle]
    /\ disk = NoFiles
    /\ db = NoRecords

\* ValidateFile writing to the engine: the rule that matched moves to the
\* front of the rule list.
engineAfterMatchToFront(c, i) ==
    [c EXCEPT !.Rules = <<c.Rules[i]>> \o SubSeq(c.Rules, 1, i - 1)
                          \o SubSeq(c.Rules, i + 1, Len(c.Rules))]

\* The engine's configuration after ValidateFile has matched the rule at
\* index i: ValidateFile, matchesRule and applyRule assign to no field of
\* e.config, and applyRule works on its own copy of the rule.
engineAfterMatch(c, i) == c

\* A goroutine enters ValidateFile: the extension is computed, the loop is
\* before the first rule.
EnterValidateFile(g) ==
    /\ call[g] = Idle
    /\ \E filename \in ConcurrentNames, mimeType \in ConcurrentTypes,
          fileSize \in ConcurrentSizes :
           call' = [call EXCEPT ![g] =
                       [op |-> "ValidateFile", filename |-> filename,
                        mimeType |-> mimeType, fileSize |-> fileSize,
                        ext |-> fileExt(filename), i |-> 1, ret |-> Running]]
    /\ UNCHANGED <<config, disk, db>>

\* One iteration of ValidateFile's loop, or the default action after it.
StepValidateFile(g) ==
    /\ call[g] # Idle
    /\ call[g].ret = Running
    /\ LET f == call[g] IN
       IF f.i > Len(config.Rules)
       THEN /\ call' = [call EXCEPT ![g].ret =
                           <<applyDefaultAction(f.ext, f.filename, f.mimeType, f.fileSize)>>]
            /\ config' = config
       ELSE IF matchesRule(f.ext, f.filename, f.mimeType, config.Rules[f.i])
       THEN /\ call' = [call EXCEPT ![g].ret =
                           <<applyRule(config.Rules[f.i], f.fileSize, f.ext)>>]
            /\ config' = engineAfterMatch(config, f.i)
       ELSE /\ call' = [call EXCEPT ![g].i = f.i + 1]
            /\ config' = config
    /\ UNCHANGED <<disk, db>>

\* The goroutine's caller takes the result.
ReturnValidateFile(g) ==
    /\ call[g] # Idle
    /\ call[g].ret # Running
    /\ call' = [call EXCEPT ![g] = Idle]
    /\ UNCHANGED <<config, disk, db>>

NextConcurrent ==
    \E g \in Goroutines :
        \/ EnterValidateFile(g)
        \/ StepValidateFile(g)
        \/ ReturnValidateFile(g)

SpecConcurrent == InitConcurrent /\ [][NextConcurrent]_vars

(***************************************************************************)
(* Claims about concurrent calls.                                          *)
(***************************************************************************)

\* A goroutine has its result.
Finished(g) == call[g] # Idle /\ call[g].ret # Running

\* The result of the goroutine's call is the result of the call run alone.
AsAlone(g) ==
    call[g].ret[1] = ValidateFile(call[g].filename, call[g].mimeType, call[g].fileSize)

\* C23: ValidateFile never modifies the engine's configuration, and under any
\* interleaving of concurrent calls on one engine each call returns the result
\* it would return when run alone.
C23_ConcurrentCallsAsAlone ==
    /\ [][config' = config]_vars
    /\ [](\A g \in Goroutines : Finished(g) => AsAlone(g))

\* One goroutine has its result from a rule while the other is still in the
\* loop, at the second rule.
C23_Witness ==
    /\ call[1] # Idle /\ call[2] # Idle
    /\ call[1].ret # Running /\ call[1].ret[1].MatchedRule # <<>>
    /\ call[2].ret = Running /\ call[2].i = 2

(***************************************************************************)
(* internal/handlers/file_handler.go and internal/services/file_service.go:*)
(* the upload of a batch of files.  The service's configuration carries    *)
(* the validation settings (the engine's copy, at the top level of config),*)
(* the upload limits, the organization and the upload directory.           *)
(***************************************************************************)

\* ValidateMultipleFiles' sum of the sizes.
RECURSIVE totalSizeFrom(_, _)
totalSizeFrom(files, i) ==
    IF i > Len(files) THEN 0 ELSE Len(files[i].Content) + totalSizeFrom(files, i + 1)

\* ValidateMultipleFiles' limit on the sum: 100MB when the configured one
\* does not parse.
maxTotalSize(c) ==
    LET p == ParseSizeString(c.Upload.MaxTotalSize) IN
    IF p.ok THEN p.size ELSE 100 * 1024 * 1024

\* ValidateMultipleFiles' loop over the files: the first error, "" for none.
RECURSIVE validateEachFrom(_, _)
RECURSIVE validateNext(_, _, _)
validateNext(files, i, err) ==
    IF err # "" THEN err ELSE validateEachFrom(files, i + 1)

validateEachFrom(files, i) ==
    IF i > Len(files) THEN ""
    ELSE validateNext(files, i, ServiceValidateFile(files[i]))

\* ValidateMultipleFiles checking the count and the sum only.
ValidateMultipleFilesLimitsOnly(files) ==
    IF Len(files) > config.Upload.MaxFiles THEN "TOO_MANY_FILES"
    ELSE IF totalSizeFrom(files, 1) > maxTotalSize(config) THEN "TOTAL_SIZE_EXCEEDED"
    ELSE ""

\* FileService.ValidateMultipleFiles: the code of its error, "" for nil.
ValidateMultipleFiles(files) ==
    IF Len(files) > config.Upload.MaxFiles THEN "TOO_MANY_FILES"
    ELSE IF totalSizeFrom(files, 1) > maxTotalSize(config) THEN "TOTAL_SIZE_EXCEEDED"
    ELSE validateEachFrom(files, 1)

\* FileService.SaveFile on the files d of the upload directory: os.Create
\* makes the file or truncates the one that is there, io.Copy writes the
\* uploaded bytes.  A fault of the storage makes os.Create fail.
SaveFile(d, file, filePath, fault) ==
    IF fault = "save" THEN [disk |-> d, err |-> "FILE_CREATION_ERROR"]
    ELSE [disk |-> [p \in DOMAIN d \cup {filePath} |->
                       IF p = filePath THEN file.Content ELSE d[p]],
          err |-> ""]

\* A FileUploadResult of a file that failed, and of one that was stored.
Failed(file, code) ==
    [OriginalName |-> file.Filename, Success |-> FALSE, Error |-> code,
     StoredName |-> <<>>, FilePath |-> <<>>, FileSize |-> 0, MimeType |-> <<>>,
     Extension |-> <<>>, FileType |-> <<>>, Hash |-> ""]

Stored(file, path, hash) ==
    [OriginalName |-> file.Filename, Success |-> TRUE, Error |-> "",
     StoredName |-> path.fileName, FilePath |-> path.fullPath,
     FileSize |-> Len(file.Content), MimeType |-> file.ContentType,
     Extension |-> GetFileExtension(file.Filename),
     FileType |-> GetFileExtension(file.Filename), Hash |-> hash]

\* The body of ProcessMultipleFiles' loop after GenerateFilePath returned
\* path: the disk and the result of the file.  A fault of the storage makes
\* CalculateFileHash's os.Open fail.
storeFile(d, file, path, fault) ==
    IF path.err # "" THEN [disk |-> d, result |-> Failed(file, path.err)]
    ELSE IF SaveFile(d, file, path.fullPath, fault).err # ""
    THEN [disk |-> d, result |-> Failed(file, SaveFile(d, file, path.fullPath, fault).err)]
    ELSE IF fault = "hash"
    THEN [disk |-> SaveFile(d, file, path.fullPath, fault).disk,
          result |-> Failed(file, "FILE_OPEN_ERROR")]
    ELSE [disk |-> SaveFile(d, file, path.fullPath, fault).disk,
          result |-> Stored(file, path,
                            hashOfFile(SaveFile(d, file, path.fullPath, fault).disk,
                                       path.fullPath).hash)]

\* The reading of the clock during an upload.
UploadClock ==
    [year |-> 2024, month |-> 1, day |-> 15, hour |-> 9, minute |-> 5, second |-> 7,
     unix |-> 1705309507, nsec |-> 42]

\* uuid.New().String(): an identifier no stored file has, the n-th one.
NewUUID(n) == <<"0","1","2","3","4","5","6","7","-","8","9","a","b","-","4","c","d","e","-","8","f","0","1","-","2","3","4","5","6","7","8","9","a","b">> \o ZeroPad(NatToStr(n), 2)

\* The body of ProcessMultipleFiles' loop for one file.
processFile(d, file, fault) ==
    storeFile(d, file,
              GenerateFilePath(file.Filename, GetFileExtension(file.Filename),
                               UploadClock, NewUUID(Cardinality(DOMAIN d)), UploadClock),
              fault)

\* ProcessMultipleFiles ending its loop at the first file that fails.
RECURSIVE processFromUntilFailure(_, _, _, _, _)
processFromUntilFailure(i, files, faults, d, results) ==
    IF i > Len(files) THEN [disk |-> d, results |-> results]
    ELSE IF ~processFile(d, files[i], faults[i]).result.Success
    THEN [disk |-> processFile(d, files[i], faults[i]).disk,
          results |-> Append(results, processFile(d, files[i], faults[i]).result)]
    ELSE processFromUntilFailure(i + 1, files, faults,
                                 processFile(d, files[i], faults[i]).disk,
                                 Append(results, processFile(d, files[i], faults[i]).result))

\* FileService.ProcessMultipleFiles, from the i-th file on: the disk and the
\* results, one for every file.  processed is what the body of the loop made
\* of the i-th file.
RECURSIVE processFrom(_, _, _, _, _)
RECURSIVE processNext(_, _, _, _, _)
processNext(i, files, faults, results, processed) ==
    processFrom(i + 1, files, faults, processed.disk, Append(results, processed.result))

processFrom(i, files, faults, d, results) ==
    IF i > Len(files) THEN [disk |-> d, results |-> results]
    ELSE processNext(i, files, faults, results, processFile(d, files[i], faults[i]))

\* models.File built by UploadFile from a result.
fileRecord(result) ==
    [OriginalName |-> result.OriginalName, StoredName |-> result.StoredName,
     FilePath |-> result.FilePath, FileSize |-> result.FileSize,
     MimeType |-> result.MimeType, Extension |-> result.Extension,
     FileType |-> result.FileType, Hash |-> result.Hash, Status |-> "active"]

\* database.DB.Create on the rows of the files table: the unique indexes of
\* models.File on StoredName and on Hash, and a fault of the database.
Create(rows, record, fault) ==
    IF fault = "record" THEN "DB_ERROR"
    ELSE IF \E k \in 1..Len(rows) : rows[k].StoredName = record.StoredName
    THEN "DUPLICATE_STORED_NAME"
    ELSE IF \E k \in 1..Len(rows) : rows[k].Hash = record.Hash
    THEN "DUPLICATE_HASH"
    ELSE ""

\* UploadFile's loop over the results, from the i-th on: the rows of the
\* table, every result as the loop leaves it with the error the loop logged
\* for it, the records created and the number of failed uploads.
RECURSIVE recordFrom(_, _, _, _, _, _, _)
recordFrom(i, results, faults, rows, done, fileRecords, failedUploads) ==
    IF i > Len(results)
    THEN [db |-> rows, results |-> done, fileRecords |-> fileRecords,
          failedUploads |-> failedUploads]
    ELSE IF ~results[i].Success
    THEN recordFrom(i + 1, results, faults, rows,
                    Append(done, [result |-> results[i], logged |-> ""]),
                    fileRecords, failedUploads + 1)
    ELSE IF Create(rows, fileRecord(results[i]), faults[i]) # ""
    THEN recordFrom(i + 1, results, faults, rows,
                    Append(done,
                           [result |-> [results[i] EXCEPT !.Success = FALSE,
                                           !.Error = "Failed to save file record"],
                            logged |-> Create(rows, fileRecord(results[i]), faults[i])]),
                    fileRecords, failedUploads + 1)
    ELSE recordFrom(i + 1, results, faults, Append(rows, fileRecord(results[i])),
                    Append(done, [result |-> results[i], logged |-> ""]),
                    Append(fileRecords, fileRecord(results[i])), failedUploads)

\* UploadFile's status: 201, 400 or 206.
statusOf(fileRecords, failedUploads) ==
    IF failedUploads = 0 THEN 201
    ELSE IF Len(fileRecords) = 0 THEN 400
    ELSE 206

\* The response to a batch that was not processed.
Rejected(err) ==
    [status |-> 400, err |-> err, total_files |-> 0, successful |-> 0, failed |-> 0,
     results |-> <<>>]

\* UploadFile after its loop over the results: the disk, the table and the
\* response.
respond(files, d, r) ==
    [disk |-> d, db |-> r.db,
     ret |-> [status |-> statusOf(r.fileRecords, r.failedUploads), err |-> "",
              total_files |-> Len(files), successful |-> Len(r.fileRecords),
              failed |-> r.failedUploads, results |-> r.results]]

\* UploadFile after ProcessMultipleFiles returned p.
recordResults(files, faults, p) ==
    respond(files, p.disk, recordFrom(1, p.results, faults, db, <<>>, <<>>, 0))

\* UploadFile after ValidateMultipleFiles returned err.
processValidated(files, faults, err) ==
    IF err # "" THEN [disk |-> disk, db |-> db, ret |-> Rejected(err)]
    ELSE recordResults(files, faults, processFrom(1, files, faults, disk, <<>>))

\* FileHandler.UploadFile: the disk, the table and the response.
UploadFile(files, faults) ==
    IF Len(files) = 0 THEN [disk |-> disk, db |-> db, ret |-> Rejected("NO_FILES")]
    ELSE processValidated(files, faults, ValidateMultipleFiles(files))

(***************************************************************************)
(* The handler asked to upload batches, one after the other.               *)
(***************************************************************************)

\* The most files the upload directory holds.
MaxStored == 3

UploadRules == <<RulePdf, RuleText>>

\* Naming by uuid and by original name, an unknown strategy, and one file per
\* upload with a total size that does not parse.
UploadSetups ==
    { [Strategy |-> "uuid", MaxFiles |-> 2, MaxTotalSize |-> <<"1","K","B">>],
      [Strategy |-> "original", MaxFiles |-> 2, MaxTotalSize |-> <<"1","K","B">>],
      [Strategy |-> "custom", MaxFiles |-> 2, MaxTotalSize |-> <<"1","K","B">>],
      [Strategy |-> "uuid", MaxFiles |-> 1, MaxTotalSize |-> <<"l","o","t","s">>] }

UploadConfig(setup) ==
    [DefaultMaxSize |-> <<"1","0","M","B">>, DefaultAction |-> <<"b","l","o","c","k">>,
     StrictMimeValidation |-> TRUE, Rules |-> UploadRules,
     Upload |-> [MaxFiles |-> setup.MaxFiles, MaxTotalSize |-> setup.MaxTotalSize],
     Organization |-> [Pattern |-> <<"d","a","t","e","/","t","y","p","e">>, DateFormat |-> <<"2","0","0","6","-","0","1","-","0","2">>,
                       IncludeTime |-> FALSE,
                       Naming |-> [Strategy |-> setup.Strategy,
                                   PreserveExtension |-> TRUE]],
     Storage |-> [UploadDir |-> <<"u","p">>]]

UploadConfigs == { UploadConfig(setup) : setup \in UploadSetups }

\* Two PDF files of one name and different bytes, a text file, a program.
UploadedFiles ==
    { [Filename |-> <<"a",".","p","d","f">>, ContentType |-> <<"a","p","p","l","i","c","a","t","i","o","n","/","p","d","f">>,
       Content |-> <<37, 80, 68, 70, 45, 49, 46, 52, 10>>],
      [Filename |-> <<"a",".","p","d","f">>, ContentType |-> <<"a","p","p","l","i","c","a","t","i","o","n","/","p","d","f">>,
       Content |-> <<37, 80, 68, 70, 45, 49, 46, 55, 10>>],
      [Filename |-> <<"n",".","t","x","t">>, ContentType |-> <<"t","e","x","t","/","p","l","a","i","n">>, Content |-> LongText],
      [Filename |-> <<"x",".","e","x","e">>, ContentType |-> <<>>, Content |-> <<77, 90>>] }

\* form.File["files"]: no file, one file or two.
Batches ==
    {<<>>} \cup { <<f>> : f \in UploadedFiles }
           \cup { <<f, g>> : f \in UploadedFiles, g \in UploadedFiles }

\* What goes wrong outside the program while a file is processed: nothing,
\* the creation of the file, the opening of the stored file, the database.
Faults == {"none", "save", "hash", "record"}

InitUpload ==
    /\ config \in UploadConfigs
    /\ call = Idle
    /\ disk = NoFiles
    /\ db = NoRecords

\* The handler has run: out is the disk, the table and the response.
handled(files, faults, out) ==
    /\ call' = [op |-> "UploadFile", files |-> files, faults |-> faults, ret |-> out.ret]
    /\ disk' = out.disk
    /\ db' = out.db

\* A request handled by FileHandler.UploadFile.
DoUploadFile ==
    /\ call = Idle
    /\ \E files \in Batches :
         \E faults \in [1..Len(files) -> Faults] :
           /\ Cardinality(DOMAIN disk) + Len(files) <= MaxStored
           /\ handled(files, faults, UploadFile(files, faults))
    /\ UNCHANGED config

NextUpload == DoUploadFile \/ Return

SpecUpload == InitUpload /\ [][NextUpload]_vars

(***************************************************************************)
(* Claims about uploads.                                                   *)
(***************************************************************************)

\* The handler has answered an upload request.
Uploaded == call.op = "UploadFile"

\* A batch breaks a limit, or one of its files fails ValidateFile.
BatchInvalid(files) ==
    \/ Len(files) > config.Upload.MaxFiles
    \/ totalSizeFrom(files, 1) > maxTotalSize(config)
    \/ \E i \in 1..Len(files) : ServiceValidateFile(files[i]) # ""

\* C25: batch validation is all-or-nothing and precedes every write: a batch
\* over MaxFiles, over the total size limit, or with one file failing
\* ValidateFile is rejected, and no file of it is written or recorded.
C25_InvalidBatchWritesNothing ==
    [][(Uploaded' /\ BatchInvalid(call'.files)) =>
           /\ call'.ret.status = 400
           /\ call'.ret.err # ""
           /\ disk' = disk
           /\ db' = db]_vars

\* A batch of a file that passes and a file that does not was rejected, and
\* the upload directory is as empty as before.
C25_Witness ==
    /\ Uploaded
    /\ Len(call.files) = 2
    /\ ServiceValidateFile(call.files[1]) = ""
    /\ ServiceValidateFile(call.files[2]) = "FILE_BLOCKED"
    /\ call.ret.err = "FILE_BLOCKED"
    /\ disk = NoFiles
    /\ db = NoRecords

\* C26: when the files uploaded have different contents and different stored
\* names, every record can be created: a record creation the database itself
\* did not fail finds a row with the same stored name or the same bytes.
C26_HashNeverCollides ==
    Uploaded =>
        \A i \in 1..Len(call.ret.results) :
            (call.ret.results[i].result.Error = "Failed to save file record"
                 /\ call.faults[i] # "record") =>
                \E k \in 1..Len(db) :
                    \/ db[k].StoredName = call.ret.results[i].result.StoredName
                    \/ disk[db[k].FilePath] = call.files[i].Content

\* C27: the bytes at a record's filePath are the bytes uploaded with the
\* record: a new record's file holds the bytes of its upload, and no step
\* changes the file of an existing record.
C27_RecordsKeepTheirBytes ==
    [][/\ \A k \in 1..Len(db) : disk'[db[k].FilePath] = disk[db[k].FilePath]
       /\ Uploaded' =>
              \A i \in 1..Len(call'.ret.results) :
                  call'.ret.results[i].result.Success =>
                      disk'[call'.ret.results[i].result.FilePath]
                          = call'.files[i].Content]_vars

\* The results of the response that succeeded, and those that failed.
Successes == {i \in 1..Len(call.ret.results) : call.ret.results[i].result.Success}

Failures == {i \in 1..Len(call.ret.results) : ~call.ret.results[i].result.Success}

\* C28: for a validated batch every file is processed, whatever happened to
\* the files before it; successful + failed = total_files; the status is 201
\* when no file failed, 400 when none succeeded, 206 otherwise.
C28_EveryFileCounted ==
    (Uploaded /\ call.ret.err = "") =>
        /\ call.ret.total_files = Len(call.files)
        /\ Len(call.ret.results) = Len(call.files)
        /\ \A i \in 1..Len(call.files) :
               /\ call.ret.results[i].result.OriginalName = call.files[i].Filename
               /\ (call.faults[i] = "none"
                       /\ config.Organization.Naming.Strategy \in {"uuid", "timestamp", "original"}) =>
                      call.ret.results[i].result.FilePath \in DOMAIN disk
        /\ call.ret.successful = Cardinality(Successes)
        /\ call.ret.failed = Cardinality(Failures)
        /\ call.ret.successful + call.ret.failed = call.ret.total_files
        /\ call.ret.status = IF call.ret.failed = 0 THEN 201
                             ELSE IF call.ret.successful = 0 THEN 400
                             ELSE 206

\* The first file of a batch failed to be saved, the second was stored and
\* recorded, and the answer is 206.
C28_Witness ==
    /\ Uploaded
    /\ call.ret.err = ""
    /\ Len(call.files) = 2
    /\ call.ret.results[1].result.Error = "FILE_CREATION_ERROR"
    /\ call.ret.results[2].result.Success
    /\ call.ret.status = 206

(***************************************************************************)
(* internal/services/file_service.go: GenerateFilePath called with any     *)
(* original name and any file type.                                        *)
(***************************************************************************)

AnyPatterns == { <<"d","a","t","e","/","t","y","p","e">>, <<"t","y","p","e">>, <<>> }

AnyConfigs ==
    [Organization : [Pattern : AnyPatterns, DateFormat : {<<"2","0","0","6","-","0","1","-","0","2">>},
                     IncludeTime : {FALSE},
                     Naming : [Strategy : {"uuid", "timestamp", "original", "custom"},
                               PreserveExtension : BOOLEAN]],
     Storage : [UploadDir : UploadDirs]]

\* Names as mime/multipart hands them over (the last element of the name the
\* client sent, which may be ".."), and names with directories in them.
AnyNames == { <<"r","e","p","o","r","t",".","p","d","f">>, <<".",".">>, <<".",".","/","x",".","s","h">>, <<"a","/",".",".","/",".",".","/",".",".","/","e","t","c","/","c","r","o","n",".","d","/","j","o","b">> }

AnyTypes == { <<"p","d","f">>, <<>>, <<".",".">>, <<".",".","/",".",".">> }

InitPathAny ==
    /\ config \in AnyConfigs
    /\ call = Idle
    /\ disk = NoFiles
    /\ db = NoRecords

\* A call of FileService.GenerateFilePath.
DoGenerateFilePathAny ==
    /\ call = Idle
    /\ \E originalName \in AnyNames, fileType \in AnyTypes, now \in Clocks, id \in UUIDs :
           call' = [op |-> "GenerateFilePath", originalName |-> originalName,
                    fileType |-> fileType, now |-> now, id |-> id, stamp |-> now,
                    ret |-> GenerateFilePath(originalName, fileType, now, id, now)]
    /\ UNCHANGED <<config, disk, db>>

NextPathAny == DoGenerateFilePathAny \/ Return

SpecPathAny == InitPathAny /\ [][NextPathAny]_vars

(***************************************************************************)
(* Claims about the containment of generated paths.                        *)
(***************************************************************************)

\* The upload directory, cleaned as filepath.Join cleans what it returns.
UploadRoot == Clean(config.Storage.UploadDir)

\* A cleaned path is the directory root or lies below it.
Inside(path, root) == path = root \/ HasPrefix(path, root \o <<"/">>)

\* C29: whatever the original name, the file type and the naming strategy,
\* the full path GenerateFilePath returns lies inside the upload directory.
C29_PathInsideUploadDir ==
    (call.op = "GenerateFilePath" /\ call.ret.err = "") =>
        Inside(call.ret.fullPath, UploadRoot)

(***************************************************************************)
(* internal/constants/validation_rules.go: the engine built with any       *)
(* default action.                                                         *)
(***************************************************************************)

\* Spellings of "block", "allow", nothing, a misspelling, a padded "block".
AnyDefaultActions == { <<"b","l","o","c","k">>, <<"B","l","o","c","k">>, <<"B","L","O","C","K">>, <<"a","l","l","o","w">>, <<>>, <<"d","e","n","y">>, <<" ","b","l","o","c","k">> }

AnyDefaultMaxSizes == { <<"1","0","M","B">>, <<"5","M","B">>, <<"t","e","n">>, <<>> }

DefaultConfigs ==
    [DefaultMaxSize : AnyDefaultMaxSizes, DefaultAction : AnyDefaultActions,
     StrictMimeValidation : {FALSE}, Rules : {<<>>, <<RuleImages>>}]

\* NewValidationEngine
InitDefault ==
    /\ config \in DefaultConfigs
    /\ call = Idle
    /\ disk = NoFiles
    /\ db = NoRecords

NextDefault == DoValidateFile \/ Return

SpecDefault == InitDefault /\ [][NextDefault]_vars

(***************************************************************************)
(* Claims about the default action.                                        *)
(***************************************************************************)

\* The default size limit: the configured one, 10 MB when it does not parse.
DefaultLimit ==
    IF ParseSizeString(config.DefaultMaxSize).ok
    THEN ParseSizeString(config.DefaultMaxSize).size
    ELSE 10 * 1024 * 1024

\* C30: the default action fails open: a file matching no rule is blocked
\* only when defaultAction is "block" in any case; under every other value it
\* is allowed subject to the default size limit, 10 MB when defaultMaxSize
\* does not parse.
C30_DefaultActionFailsOpen ==
    (call.op = "ValidateFile" /\ NoRuleMatches) =>
        IF SameIgnoringCase(config.DefaultAction, <<"b","l","o","c","k">>)
        THEN ~call.ret.IsAllowed
        ELSE /\ call.ret.IsAllowed <=> call.fileSize <= DefaultLimit
             /\ call.ret.MaxSize = DefaultLimit

====
